---------------------------- MODULE Spec2Model ----------------------------
(***************************************************************************)
(* BrailleServer: the activity lifecycle runner (js/activity-runner.js,    *)
(* kept in src/unnamed/part_000), the page runner of js/runner.js and the  *)
(* BrailleBridge connection manager (js/braillebridge.js).                 *)
(*                                                                         *)
(* JavaScript runs one task at a time, so every action below is one task   *)
(* or one promise continuation run to completion.  SpecRunner, SpecJs and  *)
(* SpecBridge are the three components' state machines; each leaves the    *)
(* other components' variables alone.                                      *)
(***************************************************************************)
EXTENDS Integers, Sequences, FiniteSets, TLC

(***************************************************************************)
(* Bounds of the model.                                                    *)
(***************************************************************************)
\* Runs the ActivityRunner may allocate (the run token is capped here).
MaxToken == 3

\* The JavaScript null / undefined.
Null == -1

(***************************************************************************)
(* Part 1.  createActivityRunner (src/unnamed/part_000, lines 610-786).    *)
(***************************************************************************)
VARIABLES
    runToken,                 \* let runToken
    running,                  \* let running
    activeActivityModule,     \* let activeActivityModule ("none" for null)
    activeActivityDonePromise,\* let activeActivityDonePromise: the token of the
                              \*   run whose handler returned it, or Null
    stopDeferred,             \* let stopDeferred: the token of the run that
                              \*   created it, or Null
    stopSoundPlayedForToken,  \* let stopSoundPlayedForToken
    runs,                     \* the suspended start() calls, by captured token
    autoRunChecked,           \* the #auto-run checkbox read by isAutoRunEnabled
    notified,                 \* what the last task told observers and handlers
    lastOp,                   \* the last task: which operation, on which run
    started                   \* per handler: calls of its start not yet followed
                              \*   by a call of its stop; Null once its stop was
                              \*   called with no such start

arvars == <<runToken, running, activeActivityModule, activeActivityDonePromise,
            stopDeferred, stopSoundPlayedForToken, runs, autoRunChecked,
            notified, lastOp, started>>

\* The activity ids of the content records; "Z" has no registered module.
Activities == {"X", "Y", "Z"}
NoContext == "noctx"
NoModule == "none"

\* canonicalActivityId is the identity on the ids used here.
canonicalActivityId(id) == id

\* window.Activities holds handlers for X and Y only.
getActivityModule(activityKey) ==
    IF activityKey \in {"X", "Y"} THEN activityKey ELSE NoModule

Tokens == 1..MaxToken

\* A suspended start(): Promise.race settles with the first of its promises
\* to settle, and nothing that settles later is observed.
\*   race     "open" (no handler promise in the race), "promise" (a handler
\*            promise in the race, pending), or the promise that won: "stop"
\*            (stopDeferred), "done" (the handler's promise)
\*   polled   the token poll has seen a newer token and resolved its promise
NoRun == [pc |-> "none", race |-> "open", polled |-> FALSE]
FinishedRun == [NoRun EXCEPT !.pc = "finished"]

Ev(ev, mod, arg) == [ev |-> ev, mod |-> mod, arg |-> arg]
BoolStr(b) == IF b THEN "true" ELSE "false"

\* The closure state as one value, for the sequential code below.
ArState == [runToken |-> runToken, running |-> running,
            activeActivityModule |-> activeActivityModule,
            activeActivityDonePromise |-> activeActivityDonePromise,
            stopDeferred |-> stopDeferred,
            stopSoundPlayedForToken |-> stopSoundPlayedForToken,
            runs |-> runs, out |-> <<>>, thrown |-> FALSE]

\* stopActiveActivity: try { module.stop(payload) } finally { clear both }.
\* `throws` is whether the handler's stop raises; the exception is not caught.
stopActiveActivity(s, reason, throws) ==
    LET called == s.activeActivityModule # NoModule
    IN [s EXCEPT !.out = IF called
                         THEN Append(@, Ev("handlerStop", s.activeActivityModule, reason))
                         ELSE @,
                 !.activeActivityModule = NoModule,
                 !.activeActivityDonePromise = Null,
                 !.thrown = called /\ throws]

\* setRunning(next, statusText).
setRunning(s, next, statusText) ==
    [s EXCEPT !.running = next,
              !.out = @ \o <<Ev("onRunningChange", NoModule, BoolStr(next)),
                             Ev("onStatus", NoModule, statusText)>>]

\* playStopOnceFor(token).
playStopOnceFor(s, token) ==
    IF s.stopSoundPlayedForToken = token THEN s
    ELSE [s EXCEPT !.stopSoundPlayedForToken = token,
                   !.out = Append(@, Ev("playStopped", NoModule, ""))]

\* if (stopDeferred) { stopDeferred.resolve(); stopDeferred = null; }
resolveStopDeferred(s) ==
    IF s.stopDeferred = Null THEN s
    ELSE [s EXCEPT !.runs[s.stopDeferred].race =
                       IF @ \in {"open", "promise"} THEN "stop" ELSE @,
                   !.stopDeferred = Null]

\* runToken += 1 of cancelRun.
CancelBump(t) == t + 1

\* cancelRun(reason).
cancelRun(s, reason, throws) ==
    LET s1 == IF reason # "startNewRun" THEN playStopOnceFor(s, s.runToken) ELSE s
        s2 == [s1 EXCEPT !.runToken = CancelBump(@)]
        s3 == resolveStopDeferred(s2)
        s4 == stopActiveActivity(s3, reason, throws)
    IN IF s4.thrown THEN s4 ELSE setRunning(s4, FALSE, "idle")

\* Mutant of noContext: start() goes on without a context.
noContextNever(ctx) == FALSE

\* if (!ctx || !ctx.activity) return;
noContext(ctx) == ctx = NoContext

\* start(): the synchronous part, up to the await of Promise.race.
\*   ctx          getCurrentContext(): an activity id or NoContext
\*   retPromise   whether the handler's start returns a thenable
\*   startThrows  whether the handler's start raises
\*   stopThrows   whether the previous handler's stop raises
start(s, ctx, autoStarted, retPromise, startThrows, stopThrows) ==
    IF noContext(ctx) THEN s
    ELSE
    LET s1 == cancelRun(s, "startNewRun", stopThrows)
        token == s1.runToken
        s2 == [s1 EXCEPT !.stopSoundPlayedForToken = Null,
                         !.out = Append(@, Ev("playStarted", NoModule, ""))]
        mod == getActivityModule(canonicalActivityId(ctx))
        s3 == IF mod # NoModule
              THEN [s2 EXCEPT !.activeActivityModule = mod,
                              !.out = Append(@, Ev("handlerStart", mod, BoolStr(autoStarted))),
                              !.thrown = startThrows,
                              !.activeActivityDonePromise =
                                  IF ~startThrows /\ retPromise THEN token ELSE @]
              ELSE [s2 EXCEPT !.activeActivityModule = NoModule,
                              !.activeActivityDonePromise = Null]
        s4 == [s3 EXCEPT !.stopDeferred = token,
                         !.runs[token] =
                             [NoRun EXCEPT !.pc = "waiting",
                                           !.race = IF s3.activeActivityDonePromise = token
                                                    THEN "promise" ELSE "open"]]
    IN IF s1.thrown THEN s1
       ELSE IF s3.thrown THEN s3
       ELSE setRunning(s4, TRUE, IF autoStarted THEN "running (auto)" ELSE "running")

\* Mutants of IsStale: the check dropped, and the check turned round.
IsStaleNever(token, live) == FALSE
IsStaleWrongWay(token, live) == token > live

\* if (token !== runToken) return;  -- the first statement of the finally block.
IsStale(token, live) == token # live

\* isAutoRunEnabled(), read when the run completes.
isAutoRunEnabled(checked) == checked

\* The finally block of start(), entered when the race settles.  onAutoAdvance
\* is words.js's advanceToNextActivityOrWord({autoStart: true}), which calls
\* runner.start({autoStarted: true}) in the same task; the promise of that
\* nested start is dropped, so its exception does not reach the finally block.
finallyBlock(s, token, stopThrows, checked, ctx, retPromise, startThrows, stopThrows2) ==
    IF IsStale(token, s.runToken) THEN s
    ELSE
    LET s1 == playStopOnceFor(s, token)
        s2 == resolveStopDeferred(s1)
        s3 == setRunning(s2, FALSE, "done")
        s4 == stopActiveActivity(s3, "finally", stopThrows)
        s5 == [s4 EXCEPT !.out = Append(@, Ev("onAutoAdvance", NoModule, ""))]
        s6 == start(s5, ctx, TRUE, retPromise, startThrows, stopThrows2)
    IN IF s4.thrown THEN s4
       ELSE IF isAutoRunEnabled(checked) THEN [s6 EXCEPT !.thrown = FALSE]
       ELSE s4

\* Mutant of StopIsNoop: stop() without its guard.
StopNeverNoop(isRunning) == FALSE

\* if (!running) return;  -- the first statement of stop().
StopIsNoop(isRunning) == ~isRunning

\* stop(reason).
stop(s, reason, throws) ==
    IF StopIsNoop(s.running) THEN s
    ELSE
    LET token == s.runToken
        s1 == playStopOnceFor(s, token)
        s2 == resolveStopDeferred(s1)
        s3 == stopActiveActivity(s2, reason, throws)
        s4 == setRunning(s3, FALSE, "idle")
    IN IF s3.thrown THEN s3 ELSE [s4 EXCEPT !.runToken = @ + 1]

\* The count of started after the calls of handlers in log from position i.
RECURSIVE afterCalls(_, _, _)
afterCalls(count, log, i) ==
    IF i > Len(log) THEN count
    ELSE LET e == log[i]
             n == IF e.ev = "handlerStart" /\ count[e.mod] # Null
                       THEN [count EXCEPT ![e.mod] = @ + 1]
                  ELSE IF e.ev = "handlerStop"
                       THEN [count EXCEPT ![e.mod] = IF @ > 0 THEN @ - 1 ELSE Null]
                  ELSE count
         IN afterCalls(n, log, i + 1)

Commit(res, op) ==
    \E s \in {res} :
    /\ started' = afterCalls(started, s.out, 1)
    /\ runToken' = s.runToken
    /\ running' = s.running
    /\ activeActivityModule' = s.activeActivityModule
    /\ activeActivityDonePromise' = s.activeActivityDonePromise
    /\ stopDeferred' = s.stopDeferred
    /\ stopSoundPlayedForToken' = s.stopSoundPlayedForToken
    /\ runs' = s.runs
    /\ notified' = s.out
    /\ lastOp' = [op EXCEPT !.threw = s.thrown]

Op(name, token, arg) ==
    [op |-> name, token |-> token, arg |-> arg, wasRunning |-> running,
     threw |-> FALSE]

ArInit ==
    /\ runToken = 0
    /\ running = FALSE
    /\ activeActivityModule = NoModule
    /\ activeActivityDonePromise = Null
    /\ stopDeferred = Null
    /\ stopSoundPlayedForToken = Null
    /\ runs = [t \in Tokens |-> NoRun]
    /\ autoRunChecked = FALSE
    /\ notified = <<>>
    /\ lastOp = [op |-> "init", token |-> Null, arg |-> "", wasRunning |-> FALSE,
                 threw |-> FALSE]
    /\ started = [m \in {"X", "Y"} |-> 0]

\* The inputs of a start() that its code reads: a handler's behaviour is an
\* input only when there is a handler, its promise only when start returns.
StartInputs(ctx, retPromise, startThrows) ==
    /\ (startThrows => getActivityModule(canonicalActivityId(ctx)) # NoModule)
    /\ (retPromise => getActivityModule(canonicalActivityId(ctx)) # NoModule /\ ~startThrows)

\* runner.start({autoStarted}) called by a key, a button or a thumb key.
Start ==
    \E ctx \in Activities \cup {NoContext}, autoStarted, retPromise, startThrows,
       stopThrows \in BOOLEAN :
        /\ runToken < MaxToken
        /\ StartInputs(ctx, retPromise, startThrows)
        /\ (autoStarted => ctx # NoContext)
        /\ (stopThrows => ctx # NoContext /\ activeActivityModule # NoModule)
        /\ Commit(start(ArState, ctx, autoStarted, retPromise, startThrows, stopThrows),
                  Op("start", Null, ctx))
        /\ UNCHANGED autoRunChecked

\* runner.stop(reason).
Stop ==
    \E reason \in {"escape", "wordNext"}, throws \in BOOLEAN :
        /\ runToken < MaxToken
        /\ (throws => running /\ activeActivityModule # NoModule)
        /\ Commit(stop(ArState, reason, throws), Op("stop", Null, reason))
        /\ UNCHANGED autoRunChecked

\* runner.cancelRun(reason).
CancelRun ==
    \E throws \in BOOLEAN :
        /\ runToken < MaxToken
        /\ (throws => activeActivityModule # NoModule)
        /\ Commit(cancelRun(ArState, "cancelRun", throws), Op("cancelRun", Null, "cancelRun"))
        /\ UNCHANGED autoRunChecked

\* The promise a handler's start returned settles.
HandlerCompletes ==
    \E t \in Tokens :
        /\ runs[t].pc = "waiting"
        /\ runs[t].race = "promise"
        /\ runs' = [runs EXCEPT ![t].race = "done"]
        /\ notified' = <<>>
        /\ lastOp' = Op("handlerCompletes", t, "")
        /\ UNCHANGED <<runToken, running, activeActivityModule, activeActivityDonePromise,
                       stopDeferred, stopSoundPlayedForToken, autoRunChecked, started>>

\* An animation frame of a run's poll: it resolves once the token has moved on.
PollFrame ==
    \E t \in Tokens :
        /\ runs[t].pc = "waiting"
        /\ ~runs[t].polled
        /\ t # runToken
        /\ runs' = [runs EXCEPT ![t].polled = TRUE]
        /\ notified' = <<>>
        /\ lastOp' = Op("pollFrame", t, "")
        /\ UNCHANGED <<runToken, running, activeActivityModule, activeActivityDonePromise,
                       stopDeferred, stopSoundPlayedForToken, autoRunChecked, started>>

Settled(r) == r.race \in {"stop", "done"} \/ r.polled

\* The continuation of a start() whose race has settled: its finally block.
Resume ==
    \E t \in Tokens, ctx \in Activities \cup {NoContext}, retPromise, startThrows,
       stopThrows, stopThrows2 \in BOOLEAN :
        /\ runs[t].pc = "waiting"
        /\ Settled(runs[t])
        /\ (t = runToken /\ autoRunChecked /\ ctx # NoContext) => runToken < MaxToken
        /\ StartInputs(ctx, retPromise, startThrows)
        /\ (stopThrows => t = runToken /\ activeActivityModule # NoModule)
        /\ (ctx # NoContext => t = runToken /\ autoRunChecked /\ ~stopThrows)
        /\ ~stopThrows2
        /\ LET s0 == [ArState EXCEPT !.runs[t] = FinishedRun]
           IN Commit(finallyBlock(s0, t, stopThrows, autoRunChecked, ctx, retPromise,
                                  startThrows, stopThrows2),
                     Op("resume", t, runs[t].race))
        /\ UNCHANGED autoRunChecked

\* The user toggles the auto-run checkbox.
ToggleAutoRun ==
    /\ autoRunChecked' = ~autoRunChecked
    /\ notified' = <<>>
    /\ lastOp' = Op("toggle", Null, "")
    /\ UNCHANGED <<runToken, running, activeActivityModule, activeActivityDonePromise,
                   stopDeferred, stopSoundPlayedForToken, runs, started>>



(***************************************************************************)
(* Part 2.  The page runner of js/runner.js: startSelectedActivity,        *)
(* cancelRun and waitForStopOrDone (lines 577-691).                        *)
(***************************************************************************)
\* Runs the page runner may allocate.
JsMaxToken == 3

VARIABLES
    js,         \* the module's lets: runToken, running, activeActivityModule,
                \*   activeActivityDonePromise, stoppedPlayedForThisRun
    jsRuns,     \* the suspended startSelectedActivity() calls, by captured token
    jsLive,     \* per handler: start calls not yet followed by a stop call
    jsAutoRun,  \* the #auto-run checkbox
    jsLast      \* the last task

jsvars == <<js, jsRuns, jsLive, jsAutoRun, jsLast>>

JsTokens == 1..JsMaxToken
Handlers == {"X", "Y"}

\* pc: "audio" (awaiting playStarted / playInstructionAfterStarted), "waiting"
\* (awaiting waitForStopOrDone), "stopSound" (awaiting playStopped in the
\* finally block), "finished".
\* cur is the activity captured by the call, kept until the handler is looked
\* up; race is "open", "promise" (a handler promise is pending) or "settled".
JsNoRun == [pc |-> "none", cur |-> NoContext, race |-> "open"]
JsFinished == [JsNoRun EXCEPT !.pc = "finished"]

JsState == [runToken |-> js.runToken, running |-> js.running,
            activeActivityModule |-> js.activeActivityModule,
            activeActivityDonePromise |-> js.activeActivityDonePromise,
            stoppedPlayedForThisRun |-> js.stoppedPlayedForThisRun,
            runs |-> jsRuns, live |-> jsLive,
            startedHandler |-> FALSE, setRunning |-> FALSE, thrown |-> FALSE]

\* stopActiveActivity(payload) of js/runner.js.
js_stopActiveActivity(s, throws) ==
    LET m == s.activeActivityModule
        called == m # NoModule
    IN [s EXCEPT !.live = IF called THEN [@ EXCEPT ![m] = @ - 1] ELSE @,
                 !.activeActivityModule = NoModule,
                 !.activeActivityDonePromise = Null,
                 !.thrown = called /\ throws]

\* cancelRun(reason) of js/runner.js.
js_cancelRun(s, reason, throws) ==
    LET s1 == IF reason # "restart" /\ s.running /\ ~s.stoppedPlayedForThisRun
              THEN [s EXCEPT !.stoppedPlayedForThisRun = TRUE] ELSE s
        s2 == [s1 EXCEPT !.runToken = @ + 1, !.running = FALSE]
    IN js_stopActiveActivity(s2, throws)

\* startSelectedActivity() up to its first await (lines 626-635).
js_startSelectedActivity(s, cur, throws) ==
    IF cur = NoContext THEN s
    ELSE
    LET s1 == js_cancelRun(s, "restart", throws)
        token == s1.runToken
    IN IF s1.thrown THEN s1
       ELSE [s1 EXCEPT !.stoppedPlayedForThisRun = FALSE,
                       !.runs[token] = [JsNoRun EXCEPT !.pc = "audio", !.cur = cur]]

\* What startSelectedActivity checks between the start-up audio and the
\* handler's start (lines 636-641): nothing; it goes on whatever the token.
js_proceedsAfterAudio(token, live) == TRUE

\* startSelectedActivity() from the end of the start-up audio to the await of
\* waitForStopOrDone (lines 638-669).
js_afterAudio(s, token, retPromise, startThrows) ==
    IF ~js_proceedsAfterAudio(token, s.runToken)
    THEN [s EXCEPT !.runs[token] = JsFinished]
    ELSE
    LET mod == getActivityModule(canonicalActivityId(s.runs[token].cur))
        s1 == IF mod # NoModule
              THEN [s EXCEPT !.activeActivityModule = mod,
                             !.live[mod] = @ + 1,
                             !.startedHandler = TRUE,
                             !.thrown = startThrows,
                             !.activeActivityDonePromise =
                                 IF ~startThrows /\ retPromise THEN token ELSE @]
              ELSE [s EXCEPT !.activeActivityModule = NoModule,
                             !.activeActivityDonePromise = Null]
    IN IF s1.thrown THEN [s1 EXCEPT !.runs[token] = JsFinished]
       ELSE [s1 EXCEPT !.running = TRUE, !.setRunning = TRUE,
                       !.runs[token] =
                           [JsNoRun EXCEPT !.pc = "waiting",
                                           !.race = IF s1.activeActivityDonePromise = token
                                                    THEN "promise" ELSE "open"]]

\* The finally block up to `await playStopped()` (lines 670-676).
js_finallyHead(s, token) ==
    IF token # s.runToken THEN [s EXCEPT !.runs[token] = JsFinished]
    ELSE IF ~s.stoppedPlayedForThisRun
    THEN [s EXCEPT !.stoppedPlayedForThisRun = TRUE, !.runs[token].pc = "stopSound"]
    ELSE [s EXCEPT !.runs[token].pc = "tail"]

\* The rest of the finally block (lines 678-689); advanceToNextActivityOrWord
\* calls startSelectedActivity({autoStarted: true}) in the same task.
js_finallyTail(s, token, stopThrows, checked, cur, stopThrows2) ==
    LET s1 == [s EXCEPT !.running = FALSE, !.runs[token] = JsFinished]
        s2 == js_stopActiveActivity(s1, stopThrows)
        s3 == js_startSelectedActivity(s2, cur, stopThrows2)
    IN IF s2.thrown THEN s2
       ELSE IF checked THEN [s3 EXCEPT !.thrown = FALSE]
       ELSE s2

JsCommit(res, op) ==
    \E s \in {res} :
    /\ js' = [runToken |-> s.runToken, running |-> s.running,
              activeActivityModule |-> s.activeActivityModule,
              activeActivityDonePromise |-> s.activeActivityDonePromise,
              stoppedPlayedForThisRun |-> s.stoppedPlayedForThisRun]
    /\ jsRuns' = s.runs
    /\ jsLive' = s.live
    /\ jsLast' = [op EXCEPT !.startedHandler = s.startedHandler,
                            !.setRunning = s.setRunning, !.threw = s.thrown]

JsOp(name, token) ==
    [op |-> name, token |-> token, stale |-> (token # Null /\ token # js.runToken),
     startedHandler |-> FALSE, setRunning |-> FALSE, threw |-> FALSE]

JsInit ==
    /\ js = [runToken |-> 0, running |-> FALSE, activeActivityModule |-> NoModule,
             activeActivityDonePromise |-> Null, stoppedPlayedForThisRun |-> FALSE]
    /\ jsRuns = [t \in JsTokens |-> JsNoRun]
    /\ jsLive = [m \in Handlers |-> 0]
    /\ jsAutoRun = FALSE
    /\ jsLast = [op |-> "init", token |-> Null, stale |-> FALSE,
                 startedHandler |-> FALSE, setRunning |-> FALSE, threw |-> FALSE]

\* toggleRun / rightThumbAction while idle: startSelectedActivity().
JsStart ==
    \E cur \in Activities \cup {NoContext}, throws \in BOOLEAN :
        /\ js.runToken < JsMaxToken
        /\ (throws => cur # NoContext /\ js.activeActivityModule # NoModule)
        /\ JsCommit(js_startSelectedActivity(JsState, cur, throws), JsOp("start", Null))
        /\ UNCHANGED jsAutoRun

\* toggleRun while running, next(), prev(), an activity chip: cancelRun("stop").
JsCancelRun ==
    \E throws \in BOOLEAN :
        /\ js.runToken < JsMaxToken
        /\ (throws => js.activeActivityModule # NoModule)
        /\ JsCommit(js_cancelRun(JsState, "stop", throws), JsOp("cancelRun", Null))
        /\ UNCHANGED jsAutoRun

\* The start-up audio of a run has ended.
JsAudioDone ==
    \E t \in JsTokens, retPromise, startThrows \in BOOLEAN :
        /\ jsRuns[t].pc = "audio"
        /\ StartInputs(jsRuns[t].cur, retPromise, startThrows)
        /\ JsCommit(js_afterAudio(JsState, t, retPromise, startThrows), JsOp("afterAudio", t))
        /\ UNCHANGED jsAutoRun

\* The promise a handler's start returned settles.
JsHandlerCompletes ==
    \E t \in JsTokens :
        /\ jsRuns[t].pc = "waiting"
        /\ jsRuns[t].race = "promise"
        /\ jsRuns' = [jsRuns EXCEPT ![t].race = "settled"]
        /\ jsLast' = JsOp("handlerCompletes", t)
        /\ UNCHANGED <<js, jsLive, jsAutoRun>>

\* An animation frame of waitForStopOrDone's poll.
JsPollFrame ==
    \E t \in JsTokens :
        /\ jsRuns[t].pc = "waiting"
        /\ jsRuns[t].race # "settled"
        /\ (t # js.runToken \/ ~js.running)
        /\ jsRuns' = [jsRuns EXCEPT ![t].race = "settled"]
        /\ jsLast' = JsOp("pollFrame", t)
        /\ UNCHANGED <<js, jsLive, jsAutoRun>>

\* The continuation after waitForStopOrDone: the finally block, up to its
\* await of playStopped() when the stop sound has not been played.
JsResume ==
    \E t \in JsTokens, cur \in Activities \cup {NoContext}, stopThrows \in BOOLEAN :
        /\ jsRuns[t].pc = "waiting"
        /\ jsRuns[t].race = "settled"
        /\ LET h == js_finallyHead(JsState, t)
           IN IF h.runs[t].pc = "tail"
              THEN /\ (stopThrows => js.activeActivityModule # NoModule)
                   /\ (cur # NoContext => jsAutoRun /\ ~stopThrows /\ js.runToken < JsMaxToken)
                   /\ JsCommit(js_finallyTail(h, t, stopThrows, jsAutoRun, cur, FALSE),
                               JsOp("resume", t))
              ELSE /\ cur = NoContext /\ ~stopThrows
                   /\ JsCommit(h, JsOp("resume", t))
        /\ UNCHANGED jsAutoRun

\* The stop sound awaited in the finally block has ended.
JsStopSoundDone ==
    \E t \in JsTokens, cur \in Activities \cup {NoContext}, stopThrows \in BOOLEAN :
        /\ jsRuns[t].pc = "stopSound"
        /\ (stopThrows => js.activeActivityModule # NoModule)
        /\ (cur # NoContext => jsAutoRun /\ ~stopThrows /\ js.runToken < JsMaxToken)
        /\ JsCommit(js_finallyTail(JsState, t, stopThrows, jsAutoRun, cur, FALSE),
                    JsOp("stopSoundDone", t))
        /\ UNCHANGED jsAutoRun

\* The user toggles the auto-run checkbox.
JsToggleAutoRun ==
    /\ jsAutoRun' = ~jsAutoRun
    /\ jsLast' = JsOp("toggle", Null)
    /\ UNCHANGED <<js, jsRuns, jsLive>>



(***************************************************************************)
(* Part 3.  The Bridge of js/braillebridge.js: connect, _scheduleReconnect *)
(* and disconnect (lines 71-80, 179-259).                                  *)
(***************************************************************************)
\* WebSockets that may be connecting, open or closing at the same time.
MaxSockets == 3
\* Failures (failed attempts and drops) counted since the last open.
MaxFails == 5

\* DEFAULT_CONFIG.reconnectDelay and DEFAULT_CONFIG.maxReconnectDelay.
ReconnectDelay == 2000
MaxReconnectDelay == 10000

VARIABLES
    ws,               \* this._ws: a socket, or Null
    manualClose,      \* this._manualClose
    reconnectTimer,   \* this._reconnectTimer: Null, or the pending timeout,
                      \*   written as the delay it was armed with
    currentDelay,     \* this._currentDelay
    autoReconnect,    \* this._config.autoReconnect
    sockets,          \* the readyState of every WebSocket the Bridge created
                      \*   that has not delivered its close event yet
    emitted,          \* the events the last task emitted
    brLast,           \* the last task
    fails,            \* failures since construction or the last open
    driver,           \* "new"; "timer" once connect() was called and nothing
                      \*   else since; "app" after any further call of the API
    afterDisconnect   \* disconnect() was called and connect() not since

brvars == <<ws, manualClose, reconnectTimer, currentDelay, autoReconnect, sockets,
            emitted, brLast, fails, driver, afterDisconnect>>

SocketIds == 1..MaxSockets

Min(a, b) == IF a <= b THEN a ELSE b

BrState == [ws |-> ws, manualClose |-> manualClose, reconnectTimer |-> reconnectTimer,
            currentDelay |-> currentDelay, sockets |-> sockets, out |-> <<>>,
            noop |-> FALSE, attempt |-> FALSE, failed |-> FALSE, sched |-> Null]

\* Mutant of scheduleReconnect: no timer is armed.
scheduleReconnectNever(s) == s

\* _scheduleReconnect(): arm the timer with the current delay, unless one is
\* pending.
scheduleReconnect(s) ==
    IF s.reconnectTimer # Null THEN s
    ELSE [s EXCEPT !.reconnectTimer = s.currentDelay, !.sched = s.currentDelay]

\* Mutant of AlreadyOpenOrConnecting: the guard looks for an open socket only.
AlreadyOpenOnly(sock, socks) ==
    sock # Null /\ socks[sock] = "OPEN"

\* The guard of connect(): this._ws is OPEN or CONNECTING.
AlreadyOpenOrConnecting(sock, socks) ==
    sock # Null /\ socks[sock] \in {"OPEN", "CONNECTING"}

FreeSocket(socks) == CHOOSE i \in SocketIds :
    socks[i] = "FREE" /\ \A j \in SocketIds : socks[j] = "FREE" => i <= j

\* connect().  ctorThrows: new WebSocket(wsUrl) raises.
connect(s, auto, ctorThrows) ==
    IF AlreadyOpenOrConnecting(s.ws, s.sockets) THEN [s EXCEPT !.noop = TRUE]
    ELSE
    LET s1 == [s EXCEPT !.manualClose = FALSE, !.attempt = TRUE]
        id == FreeSocket(s.sockets)
        thrown == [s1 EXCEPT !.out = Append(@, "error"), !.failed = TRUE]
    IN IF ctorThrows
       THEN IF auto THEN scheduleReconnect(thrown) ELSE thrown
       ELSE [s1 EXCEPT !.ws = id, !.sockets[id] = "CONNECTING"]

\* ws.onopen.
onopen(s) ==
    [s EXCEPT !.currentDelay = ReconnectDelay, !.out = Append(@, "connected")]

\* Mutant of ShouldReconnect: the manual-close flag is not consulted.
ShouldReconnectAlways(manual, auto) == auto

\* The condition of ws.onclose for scheduling a reconnect.
ShouldReconnect(manual, auto) == ~manual /\ auto

\* ws.onclose.
onclose(s, auto) ==
    LET s1 == [s EXCEPT !.out = Append(@, "disconnected"), !.ws = Null]
    IN IF ShouldReconnect(s1.manualClose, auto) THEN scheduleReconnect(s1) ELSE s1

\* Mutant of NextDelay: doubled without the cap.
NextDelayUncapped(d) == d * 2

\* The next delay: doubled, capped at maxReconnectDelay.
NextDelay(d) == Min(d * 2, MaxReconnectDelay)

\* The timeout callback of _scheduleReconnect().
reconnectCallback(s, auto, ctorThrows) ==
    connect([s EXCEPT !.reconnectTimer = Null, !.currentDelay = NextDelay(@)],
            auto, ctorThrows)

\* disconnect(); close() moves a connecting or open socket to CLOSING.
disconnect(s) ==
    LET s1 == [s EXCEPT !.manualClose = TRUE, !.reconnectTimer = Null]
    IN IF s1.ws # Null
       THEN [s1 EXCEPT !.sockets[s1.ws] =
                           IF @ \in {"CONNECTING", "OPEN"} THEN "CLOSING" ELSE @]
       ELSE s1

\* isConnected().
isConnected == ws # Null /\ sockets[ws] = "OPEN"

BrCommit(res, op, nfails) ==
    \E s \in {res} :
    /\ ws' = s.ws
    /\ manualClose' = s.manualClose
    /\ reconnectTimer' = s.reconnectTimer
    /\ currentDelay' = s.currentDelay
    /\ sockets' = s.sockets
    /\ emitted' = s.out
    /\ fails' = IF s.failed THEN nfails + 1 ELSE nfails
    /\ brLast' = [op EXCEPT !.noop = s.noop, !.attempt = s.attempt,
                            !.failed = s.failed, !.sched = s.sched]

\* A raw payload, by what JSON.parse makes of it and by the fields
\* _handleWsMessage reads:
\*   json    "invalid" (JSON.parse raises), "null", "scalar" (a number, a
\*           string, a boolean), "object" (an object or an array)
\*   kind    msg.kind in lower case, "" when absent
\*   Kind    msg.Kind: 1, 2 or absent (Null)
\*   type    msg.type ?? msg.Type as written, "" when absent
\*   isPress msg.isPress ?? msg.IsPress ?? msg.press: "absent", "true", "false"
\*   index   msg.cursorIndex ?? msg.CursorIndex ?? msg.index ?? msg.btn:
\*           <<"number", n>>, <<"text", 0>> (not a number) or <<"absent", 0>>
\*   echo    <<msg.SourceText ?? msg.sourceText, msg.Braille.UnicodeText ??
\*           msg.braille.unicodeText>>, each "" when absent
NoEcho == <<"", "">>

NoFields == [kind |-> "", Kind |-> Null, type |-> "", isPress |-> "absent",
             index |-> <<"absent", 0>>, echo |-> NoEcho]

\* No payload: the last task was not a message.
NoMessage == [json |-> "none"] @@ NoFields

BrOp(name, was) ==
    [op |-> name, was |-> was, noop |-> FALSE, attempt |-> FALSE, failed |-> FALSE,
     sched |-> Null, threw |-> FALSE, index |-> Null, carried |-> NoEcho,
     msg |-> NoMessage]

BrInit ==
    /\ ws = Null
    /\ manualClose = FALSE
    /\ reconnectTimer = Null
    /\ currentDelay = ReconnectDelay
    /\ autoReconnect = TRUE
    /\ sockets = [i \in SocketIds |-> "FREE"]
    /\ emitted = <<>>
    /\ brLast = BrOp("init", "")
    /\ fails = 0
    /\ driver = "new"
    /\ afterDisconnect = FALSE

HasFree == \E i \in SocketIds : sockets[i] = "FREE"

\* The application calls connect().
Connect ==
    \E ctorThrows \in BOOLEAN :
        /\ ~AlreadyOpenOrConnecting(ws, sockets) => (HasFree /\ fails < MaxFails)
        /\ AlreadyOpenOrConnecting(ws, sockets) => ~ctorThrows
        /\ BrCommit(connect(BrState, autoReconnect, ctorThrows), BrOp("connect", ""), fails)
        /\ driver' = IF driver = "new" THEN "timer" ELSE "app"
        /\ afterDisconnect' = FALSE
        /\ UNCHANGED autoReconnect

\* The application calls disconnect().
Disconnect ==
    /\ BrCommit(disconnect(BrState), BrOp("disconnect", ""), fails)
    /\ driver' = "app"
    /\ afterDisconnect' = TRUE
    /\ UNCHANGED autoReconnect

\* The application calls setConfig({autoReconnect: ...}).
SetConfig ==
    /\ autoReconnect' = ~autoReconnect
    /\ emitted' = <<>>
    /\ brLast' = BrOp("setConfig", "")
    /\ driver' = "app"
    /\ UNCHANGED <<ws, manualClose, reconnectTimer, currentDelay, sockets, fails,
                   afterDisconnect>>

\* The reconnect timeout fires.
TimerFires ==
    \E ctorThrows \in BOOLEAN :
        /\ reconnectTimer # Null
        /\ ~AlreadyOpenOrConnecting(ws, sockets) => (HasFree /\ fails < MaxFails)
        /\ AlreadyOpenOrConnecting(ws, sockets) => ~ctorThrows
        /\ BrCommit(reconnectCallback(BrState, autoReconnect, ctorThrows),
                    BrOp("timer", ""), fails)
        /\ UNCHANGED <<autoReconnect, driver, afterDisconnect>>

\* A connecting socket opens.
SocketOpens ==
    \E i \in SocketIds :
        /\ sockets[i] = "CONNECTING"
        /\ BrCommit(onopen([BrState EXCEPT !.sockets[i] = "OPEN"]), BrOp("open", "CONNECTING"), 0)
        /\ UNCHANGED <<autoReconnect, driver, afterDisconnect>>

\* A socket closes: a connection attempt fails (error, then close), an open
\* socket drops, or a socket closed by disconnect() finishes closing.
SocketCloses ==
    \E i \in SocketIds :
        /\ sockets[i] # "FREE"
        /\ sockets[i] # "CLOSING" => fails < MaxFails
        /\ LET s0 == [BrState EXCEPT !.sockets[i] = "FREE",
                                     !.failed = (sockets[i] # "CLOSING"),
                                     !.out = IF sockets[i] = "CONNECTING"
                                             THEN <<"error">> ELSE <<>>]
           IN BrCommit(onclose(s0, autoReconnect), BrOp("close", sockets[i]), fails)
        /\ UNCHANGED <<autoReconnect, driver, afterDisconnect>>

(***************************************************************************)
(* Inbound messages: ws.onmessage and _handleWsMessage (lines 216-218,     *)
(* 272-365).                                                               *)
(***************************************************************************)
\* Cell indices a peer may send: below, inside and beyond the 40 cells.
CursorIndices == {-2, 0, 1, 39, 40}

\* The payloads: the four that are no object with fields, the key messages
\* with every index, and the messages with a type of "brailleline" in two
\* spellings, with and without the texts of the echo.
Payloads ==
    {[json |-> j] @@ NoFields : j \in {"invalid", "null", "scalar", "object"}}
    \cup [json : {"object"},
          kind : {"", "cursorroutingstrip", "thumbkey", "other"},
          Kind : {Null, 1, 2},
          type : {""},
          isPress : {"absent", "true", "false"},
          index : {<<"absent", 0>>, <<"text", 0>>}
                      \cup {<<"number", n>> : n \in CursorIndices},
          echo : {NoEcho}]
    \cup [json : {"object"},
          kind : {"", "cursorroutingstrip", "thumbkey", "other"},
          Kind : {Null, 1, 2},
          type : {"brailleline", "BrailleLine"},
          isPress : {"absent", "true", "false"},
          index : {<<"absent", 0>>, <<"number", 0>>},
          echo : {NoEcho, <<"ab", "dots1 dots12">>}]

\* String(msgTypeRaw).toLowerCase(), on the spellings used here.
msgType(typeRaw) == IF typeRaw = "BrailleLine" THEN "brailleline" ELSE typeRaw

\* Mutant of IsBrailleLine: the type is compared as written.
IsBrailleLineAsWritten(typeRaw) == typeRaw = "brailleline"

\* if (msgType === "brailleline")
IsBrailleLine(typeRaw) == msgType(typeRaw) = "brailleline"

\* Mutant of Pressed: only an explicit true counts as pressed.
PressedOnlyIfTrue(isPress) == isPress = "true"

\* const press = (isPress !== false);
Pressed(isPress) == isPress # "false"

\* Mutant of IsNumericIndex: any index that is present passes.
IsNumericIndexIfPresent(index) == index[1] # "absent"

\* typeof idx === "number"
IsNumericIndex(index) == index[1] = "number"

\* Whether a property of the parsed value can be read: reading msg.kind of
\* null raises a TypeError.
ReadableValue(json) == json # "null"

\* The cursor-routing test of _handleWsMessage.
IsCursorMessage(p) ==
    p.kind \in {"cursorroutingstrip", "cursorrouting"} \/ p.Kind = 1

\* The thumb-key test of _handleWsMessage.
IsThumbMessage(p) ==
    p.kind \in {"thumbkey", "thumb"} \/ p.Kind = 2

\* Mutant of ParseFailureEvents: the handler goes on after a parse failure.
ParseFailureEventsAndOn(out) == out \o <<"error:parse", "message", "unknown">>

\* The catch of JSON.parse: emit error{type:"parse"} and return.
ParseFailureEvents(out) == Append(out, "error:parse")

\* _handleWsMessage(rawData): the events emitted, whether an exception left
\* the handler, the index of the cursor event if one was emitted, and the
\* source text and braille text of the brailleline event if one was emitted.
handleWsMessage(p) ==
    LET raw == <<"raw">>
        res(out, threw, index, carried) ==
            [out |-> out, threw |-> threw, index |-> index, carried |-> carried]
        base == Append(raw, "message")
    IN IF p.json = "invalid" THEN res(ParseFailureEvents(raw), FALSE, Null, NoEcho)
       ELSE IF ~ReadableValue(p.json) THEN res(raw, TRUE, Null, NoEcho)
       ELSE IF IsBrailleLine(p.type)
            THEN res(Append(base, "brailleline"), FALSE, Null, p.echo)
       ELSE IF ~Pressed(p.isPress) THEN res(base, FALSE, Null, NoEcho)
       ELSE IF IsCursorMessage(p)
            THEN IF IsNumericIndex(p.index)
                 THEN res(Append(base, "cursor"), FALSE, p.index[2], NoEcho)
                 ELSE res(Append(base, "error:cursor"), FALSE, Null, NoEcho)
       ELSE IF IsThumbMessage(p) THEN res(Append(base, "thumbkey"), FALSE, Null, NoEcho)
       ELSE res(Append(base, "unknown"), FALSE, Null, NoEcho)

\* ws.onmessage of an open socket: this._handleWsMessage(evt.data).
SocketMessage ==
    \E i \in SocketIds, p \in Payloads :
        /\ sockets[i] = "OPEN"
        /\ \E r \in {handleWsMessage(p)} :
              /\ emitted' = r.out
              /\ brLast' = [BrOp("message", "OPEN") EXCEPT !.threw = r.threw,
                                                           !.index = r.index,
                                                           !.carried = r.carried,
                                                           !.msg = p]
        /\ UNCHANGED <<ws, manualClose, reconnectTimer, currentDelay, autoReconnect,
                       sockets, fails, driver, afterDisconnect>>

(***************************************************************************)
(* Part 4.  The line model BrailleUIClass: the line buffer, the token map, *)
(* pages and getWordAt.                                                    *)
(***************************************************************************)
\* DEFAULT_OPTIONS.displayCells and DEFAULT_OPTIONS.padToCells.
DisplayCells == 40
padToCells == TRUE

\* Texts are sequences of characters; inputs are all texts of up to
\* MaxTextLen characters, and texts longer than the line.
MaxTextLen == 4
\* Token lists of up to MaxTokens tokens, pages of up to MaxPageLines lines.
MaxTokens == 2
MaxPageLines == 2

Chars == {"a", " "}

VARIABLES
    line,            \* this._line
    indexToToken,    \* this._indexToToken: the cell indices that have a token,
                     \*   each with its token
    pageLines,       \* this._pageLines: null, or the padded lines of the page
    currentLineIdx,  \* this._currentLineIdx
    uiOut,           \* the events and requests of the last task
    uiLast           \* the last task: its operation, input and result

uivars == <<line, indexToToken, pageLines, currentLineIdx, uiOut, uiLast>>

Spaces(n) == [i \in 1..n |-> " "]
Letters(n) == [i \in 1..n |-> "a"]

ShortTexts == UNION {[1..n -> Chars] : n \in 0..MaxTextLen}
Texts == ShortTexts \cup {<<c>> \o Letters(DisplayCells) : c \in Chars}

\* s.padEnd(n, " ") and s.substring(0, n).
padEnd(s, n) == IF Len(s) >= n THEN s ELSE s \o Spaces(n - Len(s))
substring0(s, n) == SubSeq(s, 1, Min(n, Len(s)))

\* /\s/ on one character.
IsSpace(ch) == ch = " "

\* s.trim().
trim(s) ==
    LET solid == {i \in 1..Len(s) : ~IsSpace(s[i])}
    IN IF solid = {} THEN <<>>
       ELSE SubSeq(s, CHOOSE i \in solid : \A j \in solid : i <= j,
                      CHOOSE i \in solid : \A j \in solid : i >= j)

\* _normalizeLine(line).
normalizeLine(l) ==
    IF padToCells THEN substring0(padEnd(l, DisplayCells), DisplayCells)
    ELSE IF Len(l) > DisplayCells THEN substring0(l, DisplayCells)
    ELSE l

\* this._indexToToken[i]: undefined and "" are both falsy, written NoToken.
NoToken == <<>>
NoMap == <<>>
tokenAt(map, i) == IF i \in DOMAIN map THEN map[i] ELSE NoToken
NullPage == [isNull |-> TRUE, lines |-> <<>>]

\* The tokens offered to setTokens: a token with an embedded space, the
\* empty token, and two tokens of about half a line, which together with a
\* second one fill the line exactly or exceed it by one cell.
HalfLine == DisplayCells \div 2
TokenSet == {<<"a", " ", "b">>, <<>>, Letters(HalfLine - 1), Letters(HalfLine)}
TokenLists == UNION {[1..n -> TokenSet] : n \in 0..MaxTokens}

\* Mutant of exceedsCells: a line that is exactly full counts as too long.
exceedsOrFillsCells(len) == len >= DisplayCells

\* if (line.length + toAdd.length > cells) break;
exceedsCells(len) == len > DisplayCells

\* The loop of _buildLineFromTokens from token k on.
RECURSIVE buildFrom(_, _, _, _)
buildFrom(tokens, k, l, map) ==
    IF k > Len(tokens) THEN [line |-> l, map |-> map]
    ELSE LET token == tokens[k]
             toAdd == IF Len(l) = 0 THEN token ELSE <<" ">> \o token
             startIndex == Len(l) + (IF Len(l) = 0 THEN 0 ELSE 1)
         IN IF exceedsCells(Len(l) + Len(toAdd)) THEN [line |-> l, map |-> map]
            ELSE buildFrom(tokens, k + 1, l \o toAdd,
                           [i \in DOMAIN map \cup (startIndex..(startIndex + Len(token) - 1)) |->
                               IF i >= startIndex /\ i < startIndex + Len(token)
                               THEN token ELSE map[i]])

\* _buildLineFromTokens(tokens).
buildLineFromTokens(tokens) ==
    LET b == buildFrom(tokens, 1, <<>>, NoMap)
    IN [b EXCEPT !.line = IF Len(@) < DisplayCells /\ padToCells
                          THEN padEnd(@, DisplayCells)
                          ELSE substring0(@, DisplayCells)]

NoWord == [found |-> FALSE, word |-> <<>>, start |-> 0, end |-> 0]
Word(w, st, en) == [found |-> TRUE, word |-> w, start |-> st, end |-> en]

\* isSep of getWordAt with the default wordSeparators /\s+/.
isSep(ch) == IsSpace(ch)

\* line.charAt(i).
charAt(l, i) == l[i + 1]

\* The two while loops of getWordAt: walk left from start and right from end
\* over the cells for which same holds.
RECURSIVE walkLeft(_, _)
walkLeft(st, same) ==
    IF st > 0 /\ same[st - 1] THEN walkLeft(st - 1, same) ELSE st

RECURSIVE walkRight(_, _, _)
walkRight(en, len, same) ==
    IF en < len /\ same[en] THEN walkRight(en + 1, len, same) ELSE en

\* getWordAt(index, {withBounds: true}).
getWordAt(l, map, index) ==
    IF index < 0 \/ index >= Len(l) THEN NoWord
    ELSE IF tokenAt(map, index) # NoToken
    THEN LET sameToken == [k \in 0..(Len(l) - 1) |-> tokenAt(map, k) = tokenAt(map, index)]
         IN Word(tokenAt(map, index), walkLeft(index, sameToken),
                 walkRight(index + 1, Len(l), sameToken))
    ELSE IF isSep(charAt(l, index)) THEN NoWord
    ELSE LET solid == [k \in 0..(Len(l) - 1) |-> ~isSep(charAt(l, k))]
             st == walkLeft(index, solid)
             en == walkRight(index + 1, Len(l), solid)
             word == SubSeq(l, st + 1, en)
         IN IF trim(word) = <<>> THEN NoWord ELSE Word(trim(word), st, en)

\* getCharAt(index); "" stands for null.
getCharAt(l, index) ==
    IF index < 0 \/ index >= Len(l) THEN "" ELSE charAt(l, index)

\* The lines offered to setPageLines.
PageTexts == {<<"a", " ", "b">>, <<"b">> \o Letters(DisplayCells)}
PageInputs == UNION {[1..n -> PageTexts] : n \in 0..MaxPageLines}

\* The indices asked for: every cell, and one below and one beyond the line.
QueryIndices == -1..DisplayCells

\* hadMap: a token map was in place when the call was made.
UiOp(name) == [op |-> name, text |-> <<>>, tokens |-> <<>>, index |-> 0,
               result |-> NoWord, done |-> TRUE, hadMap |-> indexToToken # NoMap]

UiInit ==
    /\ line = <<>>
    /\ indexToToken = NoMap
    /\ pageLines = NullPage
    /\ currentLineIdx = 0
    /\ uiOut = <<>>
    /\ uiLast = UiOp("init")

\* Mutant of setLineAndSend: without a new token map the old one is kept.
setLineKeepingMap(l, map) ==
    /\ line' = normalizeLine(l)
    /\ indexToToken' = IF map = NoMap THEN indexToToken ELSE map
    /\ uiOut' = <<"lineChanged", "sendText">>

\* _setLineInternal(line, indexToToken) followed by this._bridge.sendText.
setLineAndSend(l, map) ==
    /\ line' = normalizeLine(l)
    /\ indexToToken' = map
    /\ uiOut' = <<"lineChanged", "sendText">>

\* setText(text).
SetText ==
    \E text \in Texts :
        /\ pageLines' = NullPage
        /\ currentLineIdx' = 0
        /\ setLineAndSend(text, NoMap)
        /\ uiLast' = [UiOp("setText") EXCEPT !.text = text]

\* setTokens(tokens).
SetTokens ==
    \E tokens \in TokenLists :
        /\ pageLines' = NullPage
        /\ currentLineIdx' = 0
        /\ \E b \in {buildLineFromTokens(tokens)} : setLineAndSend(b.line, b.map)
        /\ uiLast' = [UiOp("setTokens") EXCEPT !.tokens = tokens]

\* clear().
Clear ==
    /\ line' = <<>>
    /\ indexToToken' = NoMap
    /\ pageLines' = NullPage
    /\ currentLineIdx' = 0
    /\ uiOut' = <<"lineChanged", "clearDisplay">>
    /\ uiLast' = UiOp("clear")

\* setPageLines(lines).
SetPageLines ==
    \E lines \in PageInputs :
        LET padded == [i \in 1..Len(lines) |-> normalizeLine(lines[i])]
        IN /\ pageLines' = [isNull |-> FALSE, lines |-> padded]
           /\ currentLineIdx' = 0
           /\ setLineAndSend(IF Len(padded) > 0 THEN padded[1] ELSE <<>>, NoMap)
           /\ uiLast' = UiOp("setPageLines")

\* isPageMode().
isPageMode == ~pageLines.isNull /\ Len(pageLines.lines) > 0

\* Mutant of outOfRange: only an index below the page is refused.
belowPage(index, max) == index < 0

\* if (index < 0 || index >= max) return false;
outOfRange(index, max) == index < 0 \/ index >= max

\* this._pageLines[index] || "".
pageLineAt(lines, index) ==
    IF index + 1 \in DOMAIN lines THEN lines[index + 1] ELSE <<>>

\* gotoLine(index), as called by name or through nextLine() and prevLine().
gotoLine(index, name) ==
    IF ~isPageMode \/ outOfRange(index, Len(pageLines.lines))
    THEN /\ uiOut' = <<>>
         /\ uiLast' = [UiOp(name) EXCEPT !.index = index, !.done = FALSE]
         /\ UNCHANGED <<line, indexToToken, pageLines, currentLineIdx>>
    ELSE /\ currentLineIdx' = index
         /\ setLineAndSend(pageLineAt(pageLines.lines, index), NoMap)
         /\ uiLast' = [UiOp(name) EXCEPT !.index = index]
         /\ UNCHANGED pageLines

GotoLine == \E index \in -1..MaxPageLines : gotoLine(index, "gotoLine")
NextLine == gotoLine(currentLineIdx + 1, "nextLine")
PrevLine == gotoLine(currentLineIdx - 1, "prevLine")

\* The handler _attachToBridgeCursor subscribes to the Bridge's "cursor"
\* event: it looks up the character and the word and emits "cursor",
\* "cursorChar" and, for a word, "cursorWord".
BridgeCursor ==
    \E index \in QueryIndices :
        LET wordInfo == getWordAt(line, indexToToken, index)
        IN /\ uiOut' = IF wordInfo.found THEN <<"cursor", "cursorChar", "cursorWord">>
                       ELSE <<"cursor", "cursorChar">>
           /\ uiLast' = [UiOp("bridgeCursor") EXCEPT !.index = index, !.result = wordInfo]
           /\ UNCHANGED <<line, indexToToken, pageLines, currentLineIdx>>

(***************************************************************************)
(* Part 5.  The page's braille line (words.js; js/runner.js has the same   *)
(* code): updateBrailleLine, computeWordAt and dispatchCursorSelection.    *)
(***************************************************************************)
BRAILLE_CELLS == 40

VARIABLES
    brailleLine,   \* let brailleLine
    pgOut,         \* the requests and calls of the last task
    pgLast         \* the last task: its operation, input and findings

pgvars == <<brailleLine, pgOut, pgLast>>

\* text.replace(/\s+/g, " "): every run of whitespace becomes one space.
RECURSIVE collapseRuns(_)
collapseRuns(text) ==
    IF Len(text) < 2 THEN text
    ELSE IF IsSpace(text[1]) /\ IsSpace(text[2]) THEN collapseRuns(Tail(text))
    ELSE <<text[1]>> \o collapseRuns(Tail(text))

\* compactSingleLine(text).
compactSingleLine(text) == trim(collapseRuns(text))

\* normalizeBrailleText(text).
normalizeBrailleText(text) ==
    LET single == compactSingleLine(text)
    IN IF single = <<>> THEN <<>>
       ELSE substring0(padEnd(single, BRAILLE_CELLS), BRAILLE_CELLS)

\* Mutant of SameLine: the comparison dropped.
SameLineNever(next, current) == FALSE

\* if (next === brailleLine) return;
SameLine(next, current) == next = current

\* The requests updateBrailleLine issues for a new line: the monitor is told
\* and the bridge is sent the line, or asked to clear when it is empty.
lineRequests(next) ==
    IF next = <<>> THEN <<"monitor.clear", "clearDisplay">>
    ELSE <<"monitor.setText", "sendText">>

PgOp(name) == [op |-> name, text |-> <<>>, index |-> 0, letter |-> "",
               word |-> <<>>, mod |-> NoModule]

PgInit ==
    /\ brailleLine = <<>>
    /\ pgOut = <<>>
    /\ pgLast = PgOp("init")

\* updateBrailleLine(text, meta).
updateBrailleLine(text, name) ==
    LET next == normalizeBrailleText(text)
    IN /\ pgLast' = [PgOp(name) EXCEPT !.text = text]
       /\ IF SameLine(next, brailleLine)
          THEN pgOut' = <<>> /\ UNCHANGED brailleLine
          ELSE brailleLine' = next /\ pgOut' = lineRequests(next)

\* BrailleUI.setLine(text), or a render of the page.
UpdateBrailleLine == \E text \in Texts : updateBrailleLine(text, "setLine")

\* BrailleUI.clear().
ClearBrailleLine == updateBrailleLine(<<>>, "clear")

\* The two while loops of computeWordAt, over text[k] !== " ".
RECURSIVE wordLeft(_, _)
wordLeft(text, st) ==
    IF st > 0 /\ charAt(text, st - 1) # " " THEN wordLeft(text, st - 1) ELSE st

RECURSIVE wordRight(_, _)
wordRight(text, en) ==
    IF en < Len(text) - 1 /\ charAt(text, en + 1) # " " THEN wordRight(text, en + 1) ELSE en

\* computeWordAt(text, index).
computeWordAt(text, index) ==
    IF text = <<>> THEN <<>>
    ELSE IF index < 0 \/ index >= Len(text) THEN <<>>
    ELSE trim(SubSeq(text, wordLeft(text, index) + 1, wordRight(text, index) + 1))

\* typeof mod.onCursor === "function": pairletters (X) has an onCursor,
\* readlines and story (Y) have none.
hasOnCursor(mod) == mod = "X"

\* if (mod && typeof mod.onCursor === "function") of dispatchCursorSelection.
forwardCursor(mod, index) == mod # NoModule /\ hasOnCursor(mod)

\* The page's listener of the Bridge's "cursor" event, which carries a
\* numeric index, and dispatchCursorSelection({index}, "bridge").
CursorFromBridge ==
    \E index \in CursorIndices :
        LET letter == IF getCharAt(brailleLine, index) = "" THEN " "
                      ELSE getCharAt(brailleLine, index)
            word == computeWordAt(brailleLine, index)
            mod == activeActivityModule
        IN /\ pgOut' = IF forwardCursor(mod, index) THEN <<"onCursor">> ELSE <<>>
           /\ pgLast' = [PgOp("cursor") EXCEPT !.index = index, !.letter = letter,
                                               !.word = word, !.mod = mod]
           /\ UNCHANGED brailleLine

(***************************************************************************)
(* Part 6.  The braille monitor (components/braille-monitor/               *)
(* braillemonitor.js): the translation of the print text to one braille    *)
(* cell per print character.  A cell is the sequence of its glyphs; a      *)
(* glyph is written by name: "num" is the number sign, "capNL" and "capEN" *)
(* the capital signs, a letter's glyph bears the letter's name, and the    *)
(* digits 1..0 take the glyphs of a..j.                                    *)
(***************************************************************************)
MaxMonLen == 5

VARIABLES
    currentText,   \* let currentText: the print text of the monitor
    currentLang,   \* let currentLang
    monCells,      \* the braille cells rebuildCells put on the monitor
    translator     \* window.Braille.textToBrailleCells, the optional hook

monvars == <<currentText, currentLang, monCells, translator>>

SIGN_NUMBER == "num"
SIGN_CAPITAL_EN == "capEN"
SIGN_CAPITAL_NL == "capNL"
BRAILLE_BLANK == "blank"
BRAILLE_UNKNOWN == "unknown"

\* The characters of the print texts: a capital, a letter, digits, a space.
MonChars == {"A", "b", "1", "2", "3", " "}

normalizeLang(tag) == IF tag \in {"nl", "en"} THEN tag ELSE "nl"

getCapitalSignForLang(lang) ==
    IF normalizeLang(lang) = "nl" THEN SIGN_CAPITAL_NL ELSE SIGN_CAPITAL_EN

\* Object.prototype.hasOwnProperty.call(BRAILLE_LETTERS, lower).
InLetters(lower) == lower \in {"a", "b", "c"}

\* BRAILLE_LETTERS[lower]: the glyph bears the letter's name.
BRAILLE_LETTERS(lower) == lower

InDigits(ch) == ch \in {"1", "2", "3"}

\* BRAILLE_DIGITS[ch]: the digits take the glyphs of a..j.
BRAILLE_DIGITS(ch) == CASE ch = "1" -> "a" [] ch = "2" -> "b" [] ch = "3" -> "c"
                        [] OTHER -> BRAILLE_UNKNOWN

\* The only punctuation of MonChars is the space.
InPunct(ch) == ch = " "

BRAILLE_PUNCT(ch) == BRAILLE_BLANK

isAsciiDigit(ch) == ch \in {"0", "1", "2", "3", "4", "5", "6", "7", "8", "9"}

toLowerCase(ch) == IF ch = "A" THEN "a" ELSE ch

\* defaultCellForChar(ch, lang): a digit gets the number sign, every time.
defaultCellForChar(ch, lang) ==
    IF InPunct(ch) THEN <<BRAILLE_PUNCT(ch)>>
    ELSE IF InDigits(ch) THEN <<SIGN_NUMBER, BRAILLE_DIGITS(ch)>>
    ELSE IF InLetters(toLowerCase(ch))
         THEN IF ch # toLowerCase(ch)
              THEN <<getCapitalSignForLang(lang), BRAILLE_LETTERS(toLowerCase(ch))>>
              ELSE <<BRAILLE_LETTERS(toLowerCase(ch))>>
    ELSE <<BRAILLE_UNKNOWN>>

\* Mutant of startsNumberRun: every digit is taken as the start of a run.
startsNumberRunAlways(inNumberRun) == TRUE

\* if (!inNumberRun) of coerceCells.
startsNumberRun(inNumberRun) == ~inNumberRun

\* Mutant of lowerCell: the translator's cell of a lower-case letter is kept.
lowerCellKept(cell, baseLetter) == cell

\* "lowercase: ensure no capital sign leaks": out[i] = baseLetter.
lowerCell(cell, baseLetter) == <<baseLetter>>

\* The for loop of coerceCells from position i (1-based here), with the
\* loop's inNumberRun.  The translator's cell is only kept for a character
\* that is no space, digit, punctuation or letter.
RECURSIVE coerceFrom(_, _, _, _, _)
coerceFrom(raw, cells, lang, i, inNumberRun) ==
    IF i > Len(raw) THEN <<>>
    ELSE LET ch == raw[i]
             cell == IF cells[i] = <<>> THEN <<BRAILLE_BLANK>> ELSE cells[i]
             lower == toLowerCase(ch)
         IN IF ch = " "
            THEN <<<<BRAILLE_BLANK>>>> \o coerceFrom(raw, cells, lang, i + 1, FALSE)
            ELSE IF isAsciiDigit(ch)
            THEN <<IF startsNumberRun(inNumberRun)
                   THEN <<SIGN_NUMBER, BRAILLE_DIGITS(ch)>>
                   ELSE <<BRAILLE_DIGITS(ch)>>>>
                 \o coerceFrom(raw, cells, lang, i + 1, TRUE)
            ELSE IF InPunct(ch)
            THEN <<<<BRAILLE_PUNCT(ch)>>>> \o coerceFrom(raw, cells, lang, i + 1, FALSE)
            ELSE IF InLetters(lower)
            THEN <<IF ch # lower
                   THEN <<getCapitalSignForLang(lang), BRAILLE_LETTERS(lower)>>
                   ELSE lowerCell(cell, BRAILLE_LETTERS(lower))>>
                 \o coerceFrom(raw, cells, lang, i + 1, FALSE)
            ELSE <<cell>> \o coerceFrom(raw, cells, lang, i + 1, FALSE)

\* coerceCells(text, cells, lang).
coerceCells(raw, cells, lang) == coerceFrom(raw, cells, lang, 1, FALSE)

\* window.Braille.textToBrailleCells, the optional translator hook: there is
\* none, or one that returns a plain cell per character (no sign at all), or
\* one that returns a number sign in every cell.
Translators == {"none", "plain", "signs"}

hookCells(hook, raw) ==
    IF hook = "plain"
    THEN [i \in 1..Len(raw) |->
             IF raw[i] = " " THEN <<>>
             ELSE IF InDigits(raw[i]) THEN <<BRAILLE_DIGITS(raw[i])>>
             ELSE <<BRAILLE_LETTERS(toLowerCase(raw[i]))>>]
    ELSE [i \in 1..Len(raw) |->
             IF raw[i] = " " THEN <<SIGN_NUMBER>>
             ELSE IF InDigits(raw[i]) THEN <<SIGN_NUMBER, BRAILLE_DIGITS(raw[i])>>
             ELSE <<SIGN_NUMBER, BRAILLE_LETTERS(toLowerCase(raw[i]))>>]

\* Two more hooks: one that returns a cell too few, and one that throws.
Hooks == Translators \cup {"short", "throws"}

hookThrows(hook) == hook = "throws"

\* const out = global.Braille.textToBrailleCells(raw, {lang: langNorm}).
hookOutput(hook, raw) ==
    IF hook = "short" THEN hookCells("signs", SubSeq(raw, 1, Len(raw) - 1))
    ELSE hookCells(hook, raw)

\* global.Braille && typeof global.Braille.textToBrailleCells === "function"
hasHook(hook) == hook # "none"

\* Array.isArray(out) && out.length === raw.length, inside the try block.
hookAccepted(hook, raw) ==
    /\ hasHook(hook)
    /\ ~hookThrows(hook)
    /\ Len(hookOutput(hook, raw)) = Len(raw)

\* textToBrailleCells(text, {lang}).
textToBrailleCells(raw, lang, hook) ==
    LET langNorm == normalizeLang(lang)
        cells == IF hookAccepted(hook, raw) THEN hookOutput(hook, raw)
                 ELSE [i \in 1..Len(raw) |-> defaultCellForChar(raw[i], langNorm)]
    IN coerceCells(raw, cells, langNorm)

\* rebuildCells(): an empty text shows "(leeg)" and no cell.
rebuildCells(text, lang, hook) ==
    IF text = <<>> THEN <<>> ELSE textToBrailleCells(text, lang, hook)

\* init(options): currentLang from opts.lang (null), then setText("").
MonInit ==
    /\ currentText = <<>>
    /\ currentLang = normalizeLang("")
    /\ monCells = <<>>
    /\ translator = "none"

\* The texts passed to setText: the monitor's text and one more
\* character, or the empty text (which is what clear() passes).  Every text
\* over MonChars of at most MaxMonLen characters is so translated, each from
\* its beginning.
NextTexts(text) ==
    {<<>>} \cup (IF Len(text) < MaxMonLen THEN {Append(text, ch) : ch \in MonChars} ELSE {})

\* setText(text), and clear() which is setText("").
MonSetText ==
    \E text \in NextTexts(currentText) :
        /\ currentText' = text
        /\ monCells' = rebuildCells(text, currentLang, translator)
        /\ UNCHANGED <<currentLang, translator>>

\* setLang(lang).
MonSetLang ==
    \E lang \in {"nl", "en"} :
        /\ currentLang' = normalizeLang(lang)
        /\ monCells' = rebuildCells(currentText, normalizeLang(lang), translator)
        /\ UNCHANGED <<currentText, translator>>

\* The texts of at most MaxHookLen characters, over the characters of
\* MonChars and "#", which is no space, digit, listed punctuation or letter.
MaxHookLen == 3
HookChars == MonChars \cup {"#"}

NextHookTexts(text) ==
    {<<>>} \cup (IF Len(text) < MaxHookLen THEN {Append(text, ch) : ch \in HookChars} ELSE {})

\* setText(text) with the texts of NextHookTexts.
HookSetText ==
    \E text \in NextHookTexts(currentText) :
        /\ currentText' = text
        /\ monCells' = rebuildCells(text, currentLang, translator)
        /\ UNCHANGED <<currentLang, translator>>

\* A script of the page installs any of Hooks while the monitor is empty.
InstallHook ==
    \E hook \in Hooks :
        /\ currentText = <<>>
        /\ translator' = hook
        /\ UNCHANGED <<currentText, currentLang, monCells>>

\* A script of the page installs or removes window.Braille while the monitor
\* is empty; the monitor reads it at every translation, so the cells shown
\* are those of the hook in place.
SetTranslator ==
    \E hook \in Translators :
        /\ currentText = <<>>
        /\ translator' = hook
        /\ UNCHANGED <<currentText, currentLang, monCells>>

(***************************************************************************)
(* The specifications: one per component, over the same initial state.     *)
(***************************************************************************)
(***************************************************************************)
(* Part 7.  The HTTP requests of the Bridge (js/braillebridge.js): sendText *)
(* posts a line to /braille and clearDisplay gets /clear.  A request is two *)
(* awaits: fetch(), which settles with a response or rejects when the       *)
(* transport fails, and res.text(), whose failure is read as "".            *)
(***************************************************************************)
MaxRequests == 2

\* DEFAULT_CONFIG.displayCells.
displayCells == 40

VARIABLES
    requests   \* the calls of sendText and clearDisplay, in the order made

httpvars == <<requests>>

RequestIds == 1..MaxRequests

\* The texts passed to sendText: none, a short one, one longer than the line.
SendTexts == {<<>>, <<"a", "b">>, Letters(displayCells + 1)}

\* A slot of requests no call has taken yet.
NoRequest ==
    [call |-> "none", path |-> "", body |-> <<>>, phase |-> "none",
     ok |-> FALSE, event |-> "none", eventOk |-> FALSE, completion |-> "none"]

HttpInit == requests = [i \in RequestIds |-> NoRequest]

\* let line = String(text || ""); if (pad) line = line.padEnd(cells, " ")
\* .substring(0, cells).
sendLine(text, pad) ==
    IF pad THEN substring0(padEnd(text, displayCells), displayCells) ELSE text

\* The first part of _post and _get, up to the await of fetch().
fetchStarted(call, path, body) ==
    [NoRequest EXCEPT !.call = call, !.path = path, !.body = body,
                      !.phase = "fetch", !.completion = "pending"]

\* The number of calls made.
RequestCount == Cardinality({i \in RequestIds : requests[i].call # "none"})

\* sendText(text, {pad}): return this._post("/braille", line).
SendText ==
    \E text \in SendTexts, pad \in BOOLEAN :
        /\ RequestCount < MaxRequests
        /\ requests' = [requests EXCEPT ![RequestCount + 1] =
                            fetchStarted("sendText", "/braille", sendLine(text, pad))]

\* clearDisplay(): try { await this._get("/clear") }.
ClearDisplay ==
    /\ RequestCount < MaxRequests
    /\ requests' = [requests EXCEPT ![RequestCount + 1] =
                        fetchStarted("clearDisplay", "/clear", <<>>)]

\* fetch() settles with a response, of a status that is ok or not: _post and
\* _get go on to await res.text().
FetchResponds ==
    \E i \in RequestIds, ok \in BOOLEAN :
        /\ requests[i].phase = "fetch"
        /\ requests' = [requests EXCEPT ![i].phase = "text", ![i].ok = ok]

\* fetch() rejects: _post and _get have no catch, so the rejection goes to the
\* caller; clearDisplay catches it, emits "error" {type: "http"} and throws
\* it again, sendText returns the rejected promise of _post as it is.
rejected(r) ==
    [r EXCEPT !.phase = "done", !.completion = "rejected",
              !.event = IF r.call = "clearDisplay" THEN "error" ELSE "none"]

\* The transport fails.
FetchFails ==
    \E i \in RequestIds :
        /\ requests[i].phase = "fetch"
        /\ requests' = [requests EXCEPT ![i] = rejected(requests[i])]

\* res.text() settles, with the body or (.catch(() => "")) with "":
\* this.emit("http", {path, ok: res.ok, status, body}); return {ok, ...}.
TextSettles ==
    \E i \in RequestIds :
        /\ requests[i].phase = "text"
        /\ requests' = [requests EXCEPT ![i].phase = "done",
                                        ![i].event = "http",
                                        ![i].eventOk = requests[i].ok,
                                        ![i].completion = "resolved"]

(***************************************************************************)
(* Part 8.  The Emitter of the Bridge and of BrailleUI (the same class in   *)
(* js/braillebridge.js, lines 33-66, and src/unnamed/part_001, lines 34-67):*)
(* a Map from event name to the Set of its handlers.  A Set iterates in     *)
(* insertion order and skips what was deleted before its turn.              *)
(***************************************************************************)
VARIABLES
    handlers,   \* this._handlers: per event name its handlers, in insertion
                \*   order (no Set for the name: no handlers)
    handles,    \* the cancellation handles on() has returned, each the event
                \*   name and the handler it takes off
    emLast      \* the last task

emvars == <<handlers, handles, emLast>>

EventNames == {"cursor", "http"}
HandlerIds == {"f", "g"}
Nobody == "nobody"

InSeq(seq, x) == \E i \in 1..Len(seq) : seq[i] = x
Range(seq) == {seq[i] : i \in 1..Len(seq)}

\* this._handlers.get(eventName).add(handler): a Set holds a value once.
on(hs, eventName, handler) ==
    IF InSeq(hs[eventName], handler) THEN hs
    ELSE [hs EXCEPT ![eventName] = Append(@, handler)]

\* off(eventName, handler): set.delete(handler).
off(hs, eventName, handler) ==
    [hs EXCEPT ![eventName] = SelectSeq(@, LAMBDA x : x # handler)]

\* Mutant of escapes: there is no catch around the call of a handler.
escapesUncaught(threw) == threw

\* try { fn(payload) } catch (err) { console.error(...) }: the exception of
\* a handler is logged and goes no further.
escapes(threw) == FALSE

\* No handler calls a cancellation handle while it runs.
NoReentry == [by |-> Nobody, event |-> "", handler |-> ""]

\* The for loop of emit(eventName, payload) over the Set of the event, after
\* the handlers of `called`.  throwers: the handlers that raise; reentry: the
\* handler that calls a cancellation handle while it runs, and the handle.
RECURSIVE deliver(_, _, _, _, _)
deliver(hs, eventName, called, throwers, reentry) ==
    LET pending == SelectSeq(hs[eventName], LAMBDA x : ~InSeq(called, x))
    IN IF pending = <<>>
       THEN [handlers |-> hs, called |-> called, escaped |-> FALSE]
       ELSE LET fn == Head(pending)
                hs1 == IF reentry.by = fn
                       THEN off(hs, reentry.event, reentry.handler) ELSE hs
            IN IF escapes(fn \in throwers)
               THEN [handlers |-> hs1, called |-> Append(called, fn), escaped |-> TRUE]
               ELSE deliver(hs1, eventName, Append(called, fn), throwers, reentry)

\* emit(eventName, payload).
emit(hs, eventName, throwers, reentry) == deliver(hs, eventName, <<>>, throwers, reentry)

EmOp(name, eventName, handler) ==
    [op |-> name, event |-> eventName, handler |-> handler, called |-> <<>>,
     threw |-> {}, escaped |-> FALSE]

EmInit ==
    /\ handlers = [e \in EventNames |-> <<>>]
    /\ handles = {}
    /\ emLast = EmOp("init", "", "")

\* on(eventName, handler), which returns () => this.off(eventName, handler).
On ==
    \E e \in EventNames, h \in HandlerIds :
        /\ handlers' = on(handlers, e, h)
        /\ handles' = handles \cup {<<e, h>>}
        /\ emLast' = EmOp("on", e, h)

\* A cancellation handle is called.
Cancel ==
    \E c \in handles :
        /\ handlers' = off(handlers, c[1], c[2])
        /\ emLast' = EmOp("cancel", c[1], c[2])
        /\ UNCHANGED handles

\* The handlers that call a cancellation handle while they run.
Reentries ==
    {NoReentry} \cup {[by |-> h, event |-> c[1], handler |-> c[2]] :
                         h \in HandlerIds, c \in handles}

\* emit(eventName, payload) is called.
Emit ==
    \E e \in EventNames, throwers \in SUBSET HandlerIds, reentry \in Reentries :
        \E r \in {emit(handlers, e, throwers, reentry)} :
            /\ throwers \subseteq Range(handlers[e])
            /\ reentry.by # Nobody => InSeq(r.called, reentry.by)
            /\ handlers' = r.handlers
            /\ emLast' = [EmOp("emit", e, "") EXCEPT !.called = r.called,
                                                     !.threw = throwers \cap Range(r.called),
                                                     !.escaped = r.escaped]
            /\ UNCHANGED handles

(***************************************************************************)
(* Part 9.  The pairletters activity (activities/pairletters.js, kept in    *)
(* src/unnamed/part_003).  The line of a round is random; it is written     *)
(* here by the play and the round it was built for.  sendToBraille goes     *)
(* through BrailleUI.setLine, which shows the text at once, so the awaits   *)
(* of a task resume in the microtasks of that task and an action is the     *)
(* task with them.  The timeouts of the flashes have the same delay and     *)
(* fire in the order they were set.                                         *)
(***************************************************************************)
\* Rounds of a play (activity.nrof).
TotalRounds == 2

\* Flashes that may be pending together, and the cap of playToken.
MaxFlashes == 2
MaxPlayToken == 4

VARIABLES
    pl,       \* the lets of create(): running, playToken, round, line, hits,
              \*   whether donePromise is pending, the run that waits for its
              \*   round (roundDoneResolve), the flashes whose timeout is
              \*   pending, and what the display shows
    plLast    \* the last task

plvars == <<pl, plLast>>

Line(token, n) == <<"line", token, n, "">>
Msg(msg) == <<"msg", 0, 0, msg>>

\* let line = "".
EmptyLine == Line(0, 0)

\* No run waits in waitForRoundCompletion.
NoWaiter == 0

PlInit ==
    /\ pl = [running |-> FALSE, playToken |-> 0, round |-> 0, line |-> EmptyLine,
             hits |-> {}, donePending |-> FALSE, waiter |-> NoWaiter,
             flashes |-> <<>>, display |-> EmptyLine]
    /\ plLast = [op |-> "init", arg |-> ""]

\* sendToBraille(text).
pl_sendToBraille(s, text) == [s EXCEPT !.display = text]

\* flashMessage(msg) up to its timeout: const saved = line; await
\* sendToBraille(msg); await new Promise(r => setTimeout(r, FLASH_MS)).
pl_flashMessage(s, msg) ==
    [pl_sendToBraille(s, Msg(msg)) EXCEPT
        !.flashes = Append(@, [saved |-> s.line, msg |-> msg])]

\* nextRound(token), then waitForRoundCompletion(token).
pl_nextRound(s, token) ==
    LET built == Line(token, s.round + 1)
    IN [pl_sendToBraille(s, built) EXCEPT !.hits = {}, !.line = built,
                                          !.waiter = token]

\* The while loop of run(ctx, token) from its head to the next await that
\* waits for a later task.
pl_run(s, token) ==
    IF token # s.playToken THEN s
    ELSE IF s.round < TotalRounds THEN pl_nextRound(s, token)
    ELSE pl_flashMessage(s, "klaar")

\* stop(payload).
pl_stop(s) ==
    IF ~s.running /\ ~s.donePending THEN s
    ELSE [s EXCEPT !.running = FALSE, !.playToken = @ + 1, !.donePending = FALSE]

\* start(ctx).
pl_start(s) ==
    LET s1 == [pl_stop(s) EXCEPT !.donePending = TRUE, !.running = TRUE,
                                !.playToken = @ + 1]
    IN pl_run([s1 EXCEPT !.round = 0], s1.playToken)

\* resolveRound(), and the run that waited going on: round += 1 and the loop.
pl_resolveRound(s) ==
    IF s.waiter = NoWaiter THEN s
    ELSE pl_run([s EXCEPT !.waiter = NoWaiter, !.round = @ + 1], s.waiter)

\* onCursor(info).  cell: "blank" (no letter at the index), "other" (a
\* letter that is not the target) or one of the two cells of the target.
pl_onCursor(s, cell) ==
    IF ~s.running \/ cell = "blank" THEN s
    ELSE IF cell = "other" THEN pl_flashMessage([s EXCEPT !.hits = {}], "fout")
    ELSE LET s1 == [s EXCEPT !.hits = @ \cup {cell}]
         IN IF Cardinality(s1.hits) >= 2
            THEN pl_resolveRound(pl_flashMessage(s1, "goed"))
            ELSE s1

\* The timeout of the oldest pending flash fires: finally { await
\* sendToBraille(saved) }; after the flash of "klaar", run() calls stop().
pl_flashDone(s) ==
    LET flash == Head(s.flashes)
        s1 == [pl_sendToBraille(s, flash.saved) EXCEPT !.flashes = Tail(@)]
    IN IF flash.msg = "klaar" THEN pl_stop(s1) ELSE s1

\* The runner starts the activity.
PlStart ==
    /\ pl.playToken + 2 <= MaxPlayToken
    /\ pl' = pl_start(pl)
    /\ plLast' = [op |-> "start", arg |-> ""]

\* The runner stops the activity.
PlStop ==
    /\ pl.playToken < MaxPlayToken
    /\ pl' = pl_stop(pl)
    /\ plLast' = [op |-> "stop", arg |-> ""]

\* A cursor routing key is pressed.
PlCursor ==
    \E cell \in {"blank", "other", "target1", "target2"} :
        /\ Len(pl_onCursor(pl, cell).flashes) <= MaxFlashes
        /\ pl' = pl_onCursor(pl, cell)
        /\ plLast' = [op |-> "cursor", arg |-> cell]

\* The timeout of a flash fires.
PlFlashDone ==
    /\ pl.flashes # <<>>
    /\ pl' = pl_flashDone(pl)
    /\ plLast' = [op |-> "flashDone", arg |-> Head(pl.flashes).msg]

(***************************************************************************)
(* Part 10.  The story activity (activities/story.js): start(ctx) returns   *)
(* donePromise and starts playStory(ctx), which plays the story files of    *)
(* the record one after the other.  A story file is written "file", or      *)
(* "blank" when its name gives no key.  No key is pressed here: a sound     *)
(* that plays ends or fails.                                                *)
(***************************************************************************)
\* Story files of a record, and the cap of playToken.
MaxStoryFiles == 2
MaxStoryToken == 4

VARIABLES
    st,       \* the lets of create(): intervalId, playToken, whether
              \*   donePromise is pending, whether currentHowl is set, and
              \*   the call of playStory: where it stands, its token, its
              \*   files and index, the files still to play
    stLast    \* the last task

stvars == <<st, stLast>>

StoryLists == UNION {[1..n -> {"file", "blank"}] : n \in 0..MaxStoryFiles}

\* ctx.activity.index after Number(): a finite number, or not one.
NoIndex == <<"none", 0>>
StoryIndices(files) == {NoIndex} \cup {<<"number", n>> : n \in {-1, 0, Len(files)}}

StInit ==
    /\ st = [intervalId |-> FALSE, playToken |-> 0, donePending |-> FALSE,
             howl |-> FALSE, pc |-> "none", token |-> 0, files |-> <<>>,
             index |-> NoIndex, rest |-> <<>>]
    /\ stLast = [op |-> "init", arg |-> ""]

\* stop(payload): the interval cleared, the token advanced, the sound
\* stopped, donePromise resolved.
st_stop(s) ==
    [s EXCEPT !.intervalId = FALSE, !.playToken = @ + 1, !.howl = FALSE,
              !.donePending = FALSE]

\* The for loop of playStory from its head, over the files still to play,
\* up to the await of playHowl; after the last file, stop({reason: "audioEnd"}).
RECURSIVE st_playLoop(_, _)
st_playLoop(s, rest) ==
    IF s.token # s.playToken THEN [s EXCEPT !.pc = "returned"]
    ELSE IF rest = <<>> THEN st_stop([s EXCEPT !.pc = "ended"])
    ELSE IF Head(rest) = "blank" THEN st_playLoop(s, Tail(rest))
    ELSE [s EXCEPT !.pc = "playing", !.howl = TRUE, !.rest = Tail(rest)]

\* playStory(ctx) up to the await of ensureSoundsReady().
st_playStory(s, files, index) ==
    IF files = <<>> \/ index = NoIndex THEN [s EXCEPT !.pc = "returned"]
    ELSE [s EXCEPT !.pc = "init", !.token = s.playToken, !.files = files,
                   !.index = index]

\* The files to play: all of them for the index -1, the one of an index of
\* the list, none for any other index.
filesToPlay(files, n) ==
    IF n = -1 THEN files
    ELSE IF n >= 0 /\ n < Len(files) THEN <<files[n + 1]>>
    ELSE <<>>

\* playStory(ctx) after ensureSoundsReady().
st_afterReady(s) ==
    LET toPlay == filesToPlay(s.files, s.index[2])
    IN IF toPlay = <<>> THEN [s EXCEPT !.pc = "returned"]
       ELSE st_playLoop(s, toPlay)

\* The catch of start(): playStory(ctx).catch(err => resolveDone({ok: false})).
st_failed(s) == [s EXCEPT !.pc = "failed", !.donePending = FALSE]

\* start(ctx).
st_start(s, files, index) ==
    LET s1 == [st_stop(s) EXCEPT !.donePending = TRUE, !.intervalId = TRUE,
                                !.playToken = @ + 1]
    IN st_playStory(s1, files, index)

\* The runner starts the activity with a record and an index.
StStart ==
    \E files \in StoryLists :
        \E index \in StoryIndices(files) :
            /\ st.playToken + 2 <= MaxStoryToken
            /\ st' = st_start(st, files, index)
            /\ stLast' = [op |-> "start", arg |-> ""]

\* ensureSoundsReady() settles: the sounds are ready, or it rejects.
StSoundsReady ==
    \E ok \in BOOLEAN :
        /\ st.pc = "init"
        /\ st' = IF ok THEN st_afterReady(st) ELSE st_failed(st)
        /\ stLast' = [op |-> "soundsReady", arg |-> IF ok THEN "ok" ELSE "rejected"]

\* The sound that plays ends, or fails to load or to play: the promise of
\* playHowl settles, the finally block stops the sound.
StSoundSettles ==
    \E outcome \in {"end", "loaderror", "playerror"} :
        /\ st.pc = "playing"
        /\ st.howl
        /\ st' = IF outcome = "end"
                 THEN st_playLoop([st EXCEPT !.howl = FALSE], st.rest)
                 ELSE st_failed([st EXCEPT !.howl = FALSE])
        /\ stLast' = [op |-> "soundSettles", arg |-> outcome]

vars == <<arvars, jsvars, brvars, uivars, pgvars, monvars, httpvars, emvars, plvars,
         stvars>>

Init == ArInit /\ JsInit /\ BrInit /\ UiInit /\ PgInit /\ MonInit /\ HttpInit /\ EmInit
        /\ PlInit /\ StInit

notRunner ==
    <<jsvars, brvars, uivars, pgvars, monvars, httpvars, emvars, plvars, stvars>>
notJs ==
    <<arvars, brvars, uivars, pgvars, monvars, httpvars, emvars, plvars, stvars>>
notBridge ==
    <<arvars, jsvars, uivars, pgvars, monvars, httpvars, emvars, plvars, stvars>>
notUi ==
    <<arvars, jsvars, brvars, pgvars, monvars, httpvars, emvars, plvars, stvars>>
notPage ==
    <<arvars, jsvars, brvars, uivars, monvars, httpvars, emvars, plvars, stvars>>
notMonitor ==
    <<arvars, jsvars, brvars, uivars, pgvars, httpvars, emvars, plvars, stvars>>
notHttp ==
    <<arvars, jsvars, brvars, uivars, pgvars, monvars, emvars, plvars, stvars>>
notEmitter ==
    <<arvars, jsvars, brvars, uivars, pgvars, monvars, httpvars, plvars, stvars>>
notPairletters ==
    <<arvars, jsvars, brvars, uivars, pgvars, monvars, httpvars, emvars, stvars>>
notStory ==
    <<arvars, jsvars, brvars, uivars, pgvars, monvars, httpvars, emvars, plvars>>

ArNext ==
    \/ Start /\ UNCHANGED notRunner
    \/ Stop /\ UNCHANGED notRunner
    \/ CancelRun /\ UNCHANGED notRunner
    \/ HandlerCompletes /\ UNCHANGED notRunner
    \/ PollFrame /\ UNCHANGED notRunner
    \/ Resume /\ UNCHANGED notRunner
    \/ ToggleAutoRun /\ UNCHANGED notRunner

JsNext ==
    \/ JsStart /\ UNCHANGED notJs
    \/ JsCancelRun /\ UNCHANGED notJs
    \/ JsAudioDone /\ UNCHANGED notJs
    \/ JsHandlerCompletes /\ UNCHANGED notJs
    \/ JsPollFrame /\ UNCHANGED notJs
    \/ JsResume /\ UNCHANGED notJs
    \/ JsStopSoundDone /\ UNCHANGED notJs
    \/ JsToggleAutoRun /\ UNCHANGED notJs

BrNext ==
    \/ Connect /\ UNCHANGED notBridge
    \/ Disconnect /\ UNCHANGED notBridge
    \/ SetConfig /\ UNCHANGED notBridge
    \/ TimerFires /\ UNCHANGED notBridge
    \/ SocketOpens /\ UNCHANGED notBridge
    \/ SocketCloses /\ UNCHANGED notBridge

\* The Bridge of an application that never calls disconnect().  A timeout
\* that is armed and not cleared fires: the reconnect timer is weakly fair.
ReconnectNext ==
    \/ Connect /\ UNCHANGED notBridge
    \/ SetConfig /\ UNCHANGED notBridge
    \/ TimerFires /\ UNCHANGED notBridge
    \/ SocketOpens /\ UNCHANGED notBridge
    \/ SocketCloses /\ UNCHANGED notBridge

SpecReconnect ==
    Init /\ [][ReconnectNext]_vars /\ WF_vars(TimerFires /\ UNCHANGED notBridge)

\* The Bridge receiving messages: connections come and go, open sockets
\* deliver payloads.
MsgNext ==
    \/ Connect /\ UNCHANGED notBridge
    \/ TimerFires /\ UNCHANGED notBridge
    \/ SocketOpens /\ UNCHANGED notBridge
    \/ SocketCloses /\ UNCHANGED notBridge
    \/ SocketMessage /\ UNCHANGED notBridge

SpecRunner == Init /\ [][ArNext]_vars

SpecBridge == Init /\ [][BrNext]_vars

SpecMessages == Init /\ [][MsgNext]_vars

UiNext ==
    \/ SetText /\ UNCHANGED notUi
    \/ SetTokens /\ UNCHANGED notUi
    \/ Clear /\ UNCHANGED notUi
    \/ SetPageLines /\ UNCHANGED notUi
    \/ GotoLine /\ UNCHANGED notUi
    \/ NextLine /\ UNCHANGED notUi
    \/ PrevLine /\ UNCHANGED notUi
    \/ BridgeCursor /\ UNCHANGED notUi

SpecLine == Init /\ [][UiNext]_vars

\* The page's braille line: updates, clears, and cursor events from the Bridge
\* (no activity is running in this specification).
PgNext ==
    \/ UpdateBrailleLine /\ UNCHANGED notPage
    \/ ClearBrailleLine /\ UNCHANGED notPage
    \/ CursorFromBridge /\ UNCHANGED notPage

SpecPageLine == Init /\ [][PgNext]_vars

\* Cursor dispatch to the running activity: activities start and stop,
\* cursor events arrive from the Bridge.
CursorNext ==
    \/ Start /\ UNCHANGED notRunner
    \/ Stop /\ UNCHANGED notRunner
    \/ CursorFromBridge /\ UNCHANGED notPage

SpecCursor == Init /\ [][CursorNext]_vars

\* The braille monitor: texts are set and cleared, the language is switched,
\* a translator hook is installed or removed.
MonNext ==
    \/ MonSetText /\ UNCHANGED notMonitor
    \/ MonSetLang /\ UNCHANGED notMonitor
    \/ SetTranslator /\ UNCHANGED notMonitor

SpecMonitor == Init /\ [][MonNext]_vars

\* The braille monitor with every kind of translator hook, over short texts
\* that also hold a character the tables do not list.
HookNext ==
    \/ HookSetText /\ UNCHANGED notMonitor
    \/ MonSetLang /\ UNCHANGED notMonitor
    \/ InstallHook /\ UNCHANGED notMonitor

SpecTranslator == Init /\ [][HookNext]_vars

\* The HTTP requests of the Bridge: calls are made, and every request made
\* gets a response or fails.
HttpNext ==
    \/ SendText /\ UNCHANGED notHttp
    \/ ClearDisplay /\ UNCHANGED notHttp
    \/ FetchResponds /\ UNCHANGED notHttp
    \/ FetchFails /\ UNCHANGED notHttp
    \/ TextSettles /\ UNCHANGED notHttp

SpecHttp == Init /\ [][HttpNext]_vars

\* An Emitter: handlers are subscribed and taken off, events are emitted.
EmNext ==
    \/ On /\ UNCHANGED notEmitter
    \/ Cancel /\ UNCHANGED notEmitter
    \/ Emit /\ UNCHANGED notEmitter

SpecEmitter == Init /\ [][EmNext]_vars

\* The pairletters activity: it is started and stopped, keys are pressed,
\* the timeouts of the flashes fire.
PlNext ==
    \/ PlStart /\ UNCHANGED notPairletters
    \/ PlStop /\ UNCHANGED notPairletters
    \/ PlCursor /\ UNCHANGED notPairletters
    \/ PlFlashDone /\ UNCHANGED notPairletters

SpecPairletters == Init /\ [][PlNext]_vars

\* The story activity by itself: it is started, and started again; what it
\* awaits settles.  No stop comes from outside.  A promise the activity
\* awaits does settle: the two steps are weakly fair.
StNext ==
    \/ StStart /\ UNCHANGED notStory
    \/ StSoundsReady /\ UNCHANGED notStory
    \/ StSoundSettles /\ UNCHANGED notStory

SpecStory ==
    /\ Init /\ [][StNext]_vars
    /\ WF_vars(StSoundsReady /\ UNCHANGED notStory)
    /\ WF_vars(StSoundSettles /\ UNCHANGED notStory)

SpecJs == Init /\ [][JsNext]_vars

(***************************************************************************)
(* Properties of the ActivityRunner.                                       *)
(***************************************************************************)
Has(log, e) == \E i \in 1..Len(log) : log[i] = e
HasEv(log, name) == \E i \in 1..Len(log) : log[i].ev = name

DoneIn(log) == Has(log, Ev("onStatus", NoModule, "done"))
AdvanceIn(log) == HasEv(log, "onAutoAdvance")

RunnerCore == <<runToken, running, activeActivityModule, activeActivityDonePromise,
                stopDeferred, stopSoundPlayedForToken>>

\* C1: the run token never decreases, a new run always takes a token greater
\* than every token handed out before, and the continuation of a run whose
\* token is no longer the live one changes no runner state, tells no observer
\* or handler anything and does not auto-advance.
C1_TokenMonotoneStaleNoop ==
    [][ /\ runToken' >= runToken
        /\ \A t \in Tokens : runs[t].pc # "none" => t <= runToken
        /\ \A t \in Tokens :
              (runs[t].pc = "none" /\ runs'[t].pc # "none") => (t > runToken /\ t = runToken')
        /\ (lastOp'.op = "resume" /\ lastOp'.token < runToken)
              => (UNCHANGED RunnerCore /\ notified' = <<>>
                  /\ \A t \in Tokens : t # lastOp'.token => runs'[t] = runs[t])
      ]_vars

\* A superseded run whose handler had already completed resumes, to no effect.
C1_Witness ==
    /\ lastOp.op = "resume"
    /\ lastOp.token < runToken
    /\ lastOp.arg = "done"
    /\ running

\* C2: after start() for X and then at once for Y, X's continuation makes no
\* 'done' transition, no notification and no auto-advance whenever it
\* resumes; a 'done' transition or auto-advance comes only from the
\* continuation of the run that holds the live token.
SupersededByNext(t) == t < runToken /\ t + 1 \in Tokens /\ runs[t + 1].pc # "none"

C2_OnlyNewestRunCompletes ==
    [][ /\ \A t \in Tokens :
              (lastOp'.op = "resume" /\ lastOp'.token = t /\ SupersededByNext(t))
                  => (notified' = <<>> /\ UNCHANGED RunnerCore)
        /\ (DoneIn(notified') \/ AdvanceIn(notified'))
              => (lastOp'.op = "resume" /\ lastOp'.token = runToken
                  /\ ~SupersededByNext(lastOp'.token))
      ]_vars

\* X (token 1) was superseded by Y (token 2); X's continuation has run and Y's
\* completion has just made the 'done' transition and auto-advanced.
C2_Witness ==
    /\ runs[1].pc = "finished"
    /\ runs[2].pc = "finished"
    /\ lastOp.op = "resume" /\ lastOp.token = 2
    /\ Has(notified, Ev("handlerStop", "Y", "finally"))
    /\ DoneIn(notified) /\ AdvanceIn(notified)

\* C4: stop() while not running leaves the token, the running flag, the
\* active handler and every waiter as they are, calls no handler and tells
\* no observer anything.
C4_StopWhenIdleIsNoop ==
    [][ (lastOp'.op = "stop" /\ ~running)
          => (UNCHANGED <<RunnerCore, runs>> /\ notified' = <<>> /\ ~lastOp'.threw)
      ]_vars

\* stop() after run 1 completed naturally (the token is still 1).
C4_Witness ==
    /\ lastOp.op = "stop"
    /\ ~lastOp.wasRunning
    /\ runToken = 1
    /\ runs[1].pc = "finished"

\* C5: stop(reason) while running settles the pending wait, calls the active
\* handler's stop with that reason, leaves the runner not running with no
\* active handler, notifies observers of not-running and advances the token.
C5_StopWhileRunning ==
    [][ (lastOp'.op = "stop" /\ running)
          => /\ running' = FALSE
             /\ activeActivityModule' = NoModule
             /\ stopDeferred' = Null
             /\ (stopDeferred # Null => Settled(runs'[stopDeferred]))
             /\ (activeActivityModule # NoModule
                   => Has(notified', Ev("handlerStop", activeActivityModule, lastOp'.arg)))
             /\ Has(notified', Ev("onRunningChange", NoModule, "false"))
             /\ runToken' = runToken + 1
      ]_vars

\* C6: the auto-advance callback is invoked exactly when a run goes idle
\* through its own completion (its handler's promise settled while its token
\* was live) and auto-run is enabled at that instant; never for a run ended
\* by stop() or superseded by a newer start().
C6_AutoAdvanceOnlyOnOwnCompletion ==
    [][ AdvanceIn(notified')
          <=> (lastOp'.op = "resume" /\ lastOp'.token = runToken
               /\ lastOp'.arg = "done" /\ autoRunChecked)
      ]_vars


\* C17: when the handler's start raises inside start(), start() does not
\* reject and the runner ends idle: not running, no active handler, no waiter
\* left.  (A start() that has called the handler's start and has not ended
\* idle has gone on to running with that handler.)
C17_StartThrowCaught ==
    (lastOp.op = "start" /\ HasEv(notified, "handlerStart"))
        => /\ ~lastOp.threw
           /\ \/ running /\ activeActivityModule # NoModule /\ stopDeferred = runToken
              \/ ~running /\ activeActivityModule = NoModule /\ stopDeferred = Null

\* C18: when the active handler's stop raises during stop(reason), the
\* exception does not leave stop(), the runner ends idle with no active
\* handler and the token advanced, and the continuation of the stopped run
\* makes no 'done' transition and no auto-advance.
C18_StopThrowContained ==
    [][ /\ (lastOp'.op = "stop" /\ running /\ activeActivityModule # NoModule)
              => /\ ~lastOp'.threw
                 /\ ~running'
                 /\ activeActivityModule' = NoModule
                 /\ runToken' > runToken
        /\ (lastOp'.op = "resume" /\ lastOp'.arg = "stop")
              => (~DoneIn(notified') /\ ~AdvanceIn(notified'))
      ]_vars


\* The run that holds the live token waits with no handler.
HandlerlessRun ==
    /\ running
    /\ runToken \in Tokens
    /\ runs[runToken].pc = "waiting"
    /\ runs[runToken].race = "open"
    /\ activeActivityModule = NoModule

\* C31: a start() for an activity that has no registered handler enters
\* Running (isRunning() true, observers told so) with no active handler and
\* a run that waits; and the run of an activity without handler leaves
\* Running only in a stop(), a cancel or a start() that supersedes it.
C31_HandlerlessRunOccupiesRunning ==
    [][ /\ (/\ lastOp'.op = "start"
             /\ lastOp'.arg # NoContext
             /\ getActivityModule(canonicalActivityId(lastOp'.arg)) = NoModule)
               => /\ running'
                  /\ activeActivityModule' = NoModule
                  /\ Has(notified', Ev("onRunningChange", NoModule, "true"))
                  /\ runs'[runToken'].pc = "waiting"
        /\ (HandlerlessRun /\ (~running' \/ runToken' # runToken))
               => lastOp'.op \in {"stop", "cancelRun", "start"}
      ]_vars

\* The position of the first event of that name in a log, 0 when none.
FirstEv(log, name) ==
    IF HasEv(log, name)
    THEN CHOOSE i \in 1..Len(log) :
             log[i].ev = name /\ \A j \in 1..(i - 1) : log[j].ev # name
    ELSE 0

\* C32: in a start() that supersedes a run, the previous handler's stop is
\* called before the new handler's start, and before the notification of
\* running no observer is told not-running or "idle" and no stopped sound is
\* played.
C32_RestartNotSurfacedAsStop ==
    (lastOp.op = "start" /\ lastOp.arg # NoContext /\ lastOp.wasRunning)
        => /\ (HasEv(notified, "handlerStop") /\ HasEv(notified, "handlerStart"))
                 => FirstEv(notified, "handlerStop") < FirstEv(notified, "handlerStart")
           /\ ~Has(notified, Ev("onRunningChange", NoModule, "false"))
           /\ ~Has(notified, Ev("onStatus", NoModule, "idle"))
           /\ ~HasEv(notified, "playStopped")

\* C34: every call of a handler's start by the runner is followed by one
\* call of that handler's stop, which has been made when the runner is no
\* longer running; the runner calls no handler's stop without a call of its
\* start before it that no stop has followed yet.
C34_StartMatchedByOneStop ==
    \A m \in DOMAIN started :
        /\ started[m] # Null
        /\ started[m] <= 1
        /\ ~running => started[m] = 0

\* C35: between tasks, a runner that is not running has no active handler
\* and no stop waiter; a stop waiter is pending only while it is running.
C35_IdleHasNoHandlerNoWaiter ==
    /\ ~running => (activeActivityModule = NoModule /\ stopDeferred = Null)
    /\ stopDeferred # Null => running

(***************************************************************************)
(* Properties of the page runner (js/runner.js).                           *)
(***************************************************************************)
\* C30: start() without a current activity context is a no-op: the run
\* token, the running flag, the active handler and the runs in progress are
\* unchanged, nothing is raised and no observer is notified.
C30_StartWithoutContextIsNoop ==
    [][ (lastOp'.op = "start" /\ lastOp'.arg = NoContext)
          => /\ UNCHANGED <<runToken, running, activeActivityModule,
                            activeActivityDonePromise, stopDeferred,
                            stopSoundPlayedForToken, runs>>
             /\ notified' = <<>>
             /\ ~lastOp'.threw ]_vars

\* start() was called without a context while a run with a handler was in
\* progress.
C30_Witness ==
    /\ lastOp.op = "start" /\ lastOp.arg = NoContext
    /\ lastOp.wasRunning /\ running
    /\ activeActivityModule # NoModule
    /\ runs[runToken].pc = "waiting"

JsLiveCount == jsLive["X"] + jsLive["Y"]

\* C3: a run of startSelectedActivity that was superseded while it awaited
\* its start-up audio never calls its handler's start and never sets running,
\* so at most one handler is started and not stopped at any time.
C3_SupersededRunNeverStarts ==
    /\ (jsLast.op = "afterAudio" /\ jsLast.stale)
          => (~jsLast.startedHandler /\ ~jsLast.setRunning)
    /\ JsLiveCount <= 1


(***************************************************************************)
(* Properties of the Bridge.                                               *)
(***************************************************************************)
\* The connection state the Bridge shows: that of the socket it refers to.
ConnState ==
    IF isConnected THEN "Connected"
    ELSE IF ws # Null /\ sockets[ws] = "CONNECTING" THEN "Connecting"
    ELSE "Disconnected"

\* C7: connect() while the Bridge's socket is open or connecting opens no
\* socket, changes no state and emits no event (the same holds for the
\* connect() of the reconnect timer), and the state never goes from Connected
\* straight to Connecting.
C7_ConnectIdempotent ==
    [][ /\ (brLast'.op \in {"connect", "timer"} /\ ConnState \in {"Connected", "Connecting"})
            => /\ ws' = ws /\ sockets' = sockets /\ manualClose' = manualClose
               /\ emitted' = <<>>
               /\ ~brLast'.attempt
               /\ brLast'.op = "connect"
                    => (reconnectTimer' = reconnectTimer /\ currentDelay' = currentDelay)
        /\ ConnState = "Connected" => ConnState' # "Connecting"
      ]_vars

\* connect() was called while the socket was open, and while it was connecting.
C7_Witness ==
    /\ brLast.op = "connect"
    /\ brLast.noop
    /\ ConnState = "Connected"

\* The sockets of the Bridge that are connecting or open.
LiveSockets == {i \in SocketIds : sockets[i] \in {"CONNECTING", "OPEN"}}

\* C33: at most one socket of the Bridge is connecting or open, and this._ws
\* is that socket: the close event of a socket that was replaced does not
\* clear the reference to the newer one and brings no further socket.
C33_OneLiveSocketReferenced ==
    /\ Cardinality(LiveSockets) <= 1
    /\ \A i \in LiveSockets : ws = i

\* The delay the n-th failure in a row is to schedule.
ExpectedDelay(n) == Min(ReconnectDelay * 2 ^ (n - 1), MaxReconnectDelay)

FailedWith(n) == brLast.failed /\ autoReconnect /\ fails = n

\* The last task made a connection attempt, and is not the n-th failure.
AttemptAfter(n) == brLast.attempt /\ (~brLast.failed \/ fails # n)

\* C25: disconnect() never being called, a failure with auto-reconnect
\* enabled leaves a reconnect timer pending and is followed by a further
\* connection attempt, whatever the number of failures before it (up to the
\* bound of the model, where the runs end).
C25_FailureLeadsToAttempt ==
    /\ [](brLast.failed /\ autoReconnect => reconnectTimer # Null)
    /\ \A n \in 1..(MaxFails - 1) : FailedWith(n) ~> AttemptAfter(n)

\* The reconnect timer has made an attempt after every failure the bound
\* allows but one.
C25_Witness ==
    /\ brLast.op = "timer" /\ brLast.attempt /\ ~brLast.failed
    /\ fails = MaxFails - 1
    /\ autoReconnect /\ ~afterDisconnect

\* C9: when a socket that had opened drops, the reconnect then pending is
\* armed with the initial delay.
C9_DelayResetAfterOpen ==
    (brLast.op = "close" /\ brLast.was = "OPEN" /\ autoReconnect /\ ~manualClose)
        => reconnectTimer = ReconnectDelay

\* C10: from disconnect() until the application calls connect() again, no
\* reconnect timer is pending and no connection attempt is made.
C10_NoReconnectAfterDisconnect ==
    [][ afterDisconnect'
          => /\ reconnectTimer' = Null
             /\ ~brLast'.attempt
             /\ \A i \in SocketIds : sockets'[i] = "CONNECTING" => sockets[i] = "CONNECTING"
      ]_vars

\* The close caused by disconnect() has arrived, auto-reconnect being enabled.
C10_Witness ==
    /\ afterDisconnect
    /\ autoReconnect
    /\ brLast.op = "close"
    /\ brLast.was = "CLOSING"

(***************************************************************************)
(* Properties of the Bridge's message handler.                             *)
(***************************************************************************)
BrConnection == <<ws, manualClose, reconnectTimer, currentDelay, autoReconnect, sockets>>

NormalizedEvents == {"message", "brailleline", "cursor", "thumbkey", "unknown"}

EmittedAny(names) == \E i \in 1..Len(emitted) : emitted[i] \in names

EmittedCount(name) == Cardinality({i \in 1..Len(emitted) : emitted[i] = name})

\* C19: a payload that does not parse produces one error event of type
\* "parse" and no message, brailleline, cursor, thumbkey or unknown event,
\* leaves the sockets and the reconnect policy as they are and schedules no
\* reconnect; and only such a payload produces that error event.
C19_ParseFailureIgnored ==
    [][ brLast'.op = "message"
          => /\ UNCHANGED BrConnection
             /\ brLast'.msg.json = "invalid"
                  => /\ EmittedCount("error:parse")' = 1
                     /\ ~EmittedAny(NormalizedEvents)'
                     /\ ~brLast'.threw
             /\ brLast'.msg.json # "invalid" => EmittedCount("error:parse")' = 0
      ]_vars

\* An unparseable payload arrived while a reconnect timer was pending.
C19_Witness ==
    /\ brLast.op = "message"
    /\ brLast.msg.json = "invalid"
    /\ emitted = <<"raw", "error:parse">>
    /\ reconnectTimer # Null

\* C20: no payload, unparseable or valid JSON of any shape, makes the
\* message handler raise.
C20_HandlerNeverRaises ==
    brLast.op = "message" => ~brLast.threw

\* The last task handled a payload that parsed to a value with readable
\* properties.
ParsedMessage == brLast.op = "message" /\ brLast.msg.json \in {"scalar", "object"}

\* A parsed message that is no braille line echo.
KeyMessage == ParsedMessage /\ brLast.msg.type \notin {"brailleline", "BrailleLine"}

KeyEvents == {"cursor", "thumbkey", "unknown"}

EmittedOf(names) == Cardinality({i \in 1..Len(emitted) : emitted[i] \in names})

\* C22, as stated: a parsed key message emits a cursor, thumbkey or unknown
\* event if and only if its press flag is not explicitly false.
C22_DispatchedIffNotReleased ==
    KeyMessage => (EmittedAny(KeyEvents) <=> brLast.msg.isPress # "false")

\* C22, amended: a parsed key message whose press flag is explicitly false
\* emits no cursor, thumbkey or unknown event and no cursor error; one whose
\* flag is absent or anything else emits exactly one of the four, and that
\* one is the error of type "cursor" if and only if it is a cursor-routing
\* message without a numeric index.
C22_PressGatesDispatch ==
    KeyMessage
        => IF brLast.msg.isPress = "false"
           THEN EmittedOf(KeyEvents \cup {"error:cursor"}) = 0
           ELSE /\ EmittedOf(KeyEvents \cup {"error:cursor"}) = 1
                /\ EmittedAny({"error:cursor"})
                      <=> (IsCursorMessage(brLast.msg) /\ brLast.msg.index[1] # "number")

\* A thumb-key message without a press flag was dispatched.
C22_Witness ==
    /\ KeyMessage
    /\ brLast.msg.isPress = "absent"
    /\ brLast.msg.Kind = 2
    /\ emitted = <<"raw", "message", "thumbkey">>

\* C23: a pressed cursor-routing message with a numeric index produces
\* exactly one cursor event, carrying that index, and no error event; one
\* without a numeric index produces exactly one error event of type
\* "cursor" and no cursor event.
C23_CursorNeedsNumericIndex ==
    (KeyMessage /\ brLast.msg.isPress # "false" /\ IsCursorMessage(brLast.msg))
        => IF brLast.msg.index[1] = "number"
           THEN /\ EmittedCount("cursor") = 1
                /\ brLast.index = brLast.msg.index[2]
                /\ EmittedOf({"error:cursor", "error:parse"}) = 0
           ELSE /\ EmittedCount("error:cursor") = 1
                /\ EmittedOf({"error:parse"}) = 0
                /\ EmittedCount("cursor") = 0

\* A pressed cursor-routing message whose index is a text was reported.
C23_Witness ==
    /\ KeyMessage
    /\ brLast.msg.isPress = "true"
    /\ brLast.msg.kind = "cursorroutingstrip"
    /\ brLast.msg.index = <<"text", 0>>
    /\ emitted = <<"raw", "message", "error:cursor">>

\* C26: a parsed message whose type is "brailleline", in any letter case,
\* produces exactly one brailleline event, carrying its source text and its
\* braille text, and no cursor, thumbkey or unknown event and no cursor
\* error, whatever its kind and press fields are.
C26_BrailleLineEchoOnly ==
    (ParsedMessage /\ brLast.msg.type \in {"brailleline", "BrailleLine"})
        => /\ EmittedCount("brailleline") = 1
           /\ brLast.carried = brLast.msg.echo
           /\ EmittedOf(KeyEvents \cup {"error:cursor"}) = 0

\* A released cursor-routing message with the type "BrailleLine" and texts
\* was emitted as a brailleline event.
C26_Witness ==
    /\ ParsedMessage
    /\ brLast.msg.type = "BrailleLine"
    /\ brLast.msg.isPress = "false"
    /\ brLast.msg.kind = "cursorroutingstrip"
    /\ brLast.msg.echo # NoEcho
    /\ emitted = <<"raw", "message", "brailleline">>
    /\ brLast.carried = brLast.msg.echo

(***************************************************************************)
(* The line model of BrailleUIClass, under SpecLine.                       *)
(***************************************************************************)

\* C11: in every reachable state of the line model, initially, after
\* setText, setTokens and the page operations, and after clear(), the line
\* holds exactly displayCells characters.
C11_LineAlwaysCells == Len(line) = DisplayCells

\* C13: setText(text) collapses every run of whitespace to one space and
\* trims the text, and then pads or truncates it to displayCells characters.
C13_SetTextCollapsesAndTrims ==
    uiLast.op = "setText"
        => line = substring0(padEnd(compactSingleLine(uiLast.text), DisplayCells),
                             DisplayCells)

\* C14: for an index inside the line, getWordAt(index, {withBounds: true})
\* returns nothing or a span [start, end) that contains the index and whose
\* characters of the line hold no separator.
C14_WordSpanHasNoSeparator ==
    (/\ uiLast.op = "bridgeCursor"
     /\ uiLast.index >= 0 /\ uiLast.index < DisplayCells
     /\ uiLast.result.found)
        => /\ uiLast.result.start <= uiLast.index
           /\ uiLast.index < uiLast.result.end
           /\ \A k \in uiLast.result.start..(uiLast.result.end - 1) :
                  ~isSep(charAt(line, k))

\* The first k tokens joined by single spaces.
RECURSIVE JoinTokens(_, _)
JoinTokens(tokens, k) ==
    IF k = 0 THEN <<>>
    ELSE IF k = 1 THEN tokens[1]
    ELSE JoinTokens(tokens, k - 1) \o <<" ">> \o tokens[k]

\* The number of tokens placed: the longest beginning of the list that,
\* joined, does not exceed the line.
PlacedCount(tokens) ==
    LET fits == {k \in 0..Len(tokens) : Len(JoinTokens(tokens, k)) <= DisplayCells}
    IN CHOOSE k \in fits : \A j \in fits : j <= k

\* The cells [start, end) of the k-th token in the joined line.
TokenStart(tokens, k) == Len(JoinTokens(tokens, k)) - Len(tokens[k])
TokenEnd(tokens, k) == Len(JoinTokens(tokens, k))

\* The line is the placed tokens joined by single spaces and padded, and
\* every index of a placed token resolves to that token and its range.
LaidOutAndMapped(tokens) ==
    LET n == PlacedCount(tokens)
    IN /\ line = padEnd(JoinTokens(tokens, n), DisplayCells)
       /\ \A k \in 1..n :
             \A i \in TokenStart(tokens, k)..(TokenEnd(tokens, k) - 1) :
                 getWordAt(line, indexToToken, i)
                     = Word(tokens[k], TokenStart(tokens, k), TokenEnd(tokens, k))

\* The tokens without the empty tokens at the beginning of the list.
RECURSIVE DropLeadingEmpty(_)
DropLeadingEmpty(tokens) ==
    IF tokens # <<>> /\ tokens[1] = <<>> THEN DropLeadingEmpty(Tail(tokens)) ELSE tokens

\* C27, as stated: after setTokens(tokens) the line is the tokens in order,
\* separated by exactly one space, whole tokens only, up to the first token
\* that would make the line exceed displayCells; and for every index
\* occupied by a placed token getWordAt returns that token with the token's
\* range.
C27_TokensJoinedAndMapped ==
    uiLast.op = "setTokens" => LaidOutAndMapped(uiLast.tokens)

\* What does hold of C27: the same of the tokens that follow the empty
\* tokens at the beginning of the list, which take neither a cell nor a
\* separator.
C27_TokensLaidOutAndMapped ==
    uiLast.op = "setTokens" => LaidOutAndMapped(DropLeadingEmpty(uiLast.tokens))

\* Two tokens of half a line each were passed; the second would make 41
\* cells and was not placed.
C27_Witness ==
    /\ uiLast.op = "setTokens"
    /\ uiLast.tokens = <<Letters(HalfLine), Letters(HalfLine)>>
    /\ DOMAIN indexToToken = 0..(HalfLine - 1)
    /\ line = padEnd(Letters(HalfLine), DisplayCells)

\* In page mode the index is one of the page's and the line is that page
\* line.
PageLineShown ==
    isPageMode
        => /\ 0 <= currentLineIdx /\ currentLineIdx < Len(pageLines.lines)
           /\ line = pageLineAt(pageLines.lines, currentLineIdx)

\* C38: in page mode the current line index is at least 0 and below the
\* number of page lines and the line is the page line of that index; a
\* gotoLine, nextLine or prevLine in page mode whose target is below 0 or
\* not below the number of page lines returns false, leaves the index, the
\* page and the line as they are and sends nothing.
C38_PageIndexInRange ==
    /\ []PageLineShown
    /\ [][ (/\ uiLast'.op \in {"gotoLine", "nextLine", "prevLine"}
            /\ isPageMode
            /\ (uiLast'.index < 0 \/ uiLast'.index >= Len(pageLines.lines)))
              => /\ ~uiLast'.done
                 /\ UNCHANGED <<line, indexToToken, pageLines, currentLineIdx>>
                 /\ uiOut' = <<>>
         ]_vars

\* nextLine() was called on the last line of a page of two lines.
C38_Witness ==
    /\ uiLast.op = "nextLine" /\ ~uiLast.done
    /\ isPageMode /\ Len(pageLines.lines) = 2
    /\ currentLineIdx = 1 /\ uiLast.index = 2
    /\ line = pageLines.lines[2]

\* The calls that change the content of the line without tokens.
ChangesContent(last) ==
    \/ last.op \in {"setText", "clear", "setPageLines"}
    \/ last.op \in {"gotoLine", "nextLine", "prevLine"} /\ last.done

\* C28: setText, clear, setPageLines and a gotoLine that changes the line
\* discard the token map; until the next setTokens no call brings a token
\* map back, and a word looked up meanwhile is the one found by scanning the
\* line.
C28_ContentChangeDropsTokenMap ==
    [][ /\ ChangesContent(uiLast') => indexToToken' = NoMap
        /\ indexToToken' # indexToToken
              => (uiLast'.op = "setTokens" \/ indexToToken' = NoMap)
        /\ (uiLast'.op = "bridgeCursor" /\ indexToToken = NoMap)
              => uiLast'.result = getWordAt(line, NoMap, uiLast'.index) ]_vars

\* setText("a a") was called while a token map was in place; no token map
\* is left.
C28_Witness ==
    /\ uiLast.op = "setText" /\ uiLast.text = <<"a", " ", "a">>
    /\ uiLast.hadMap
    /\ indexToToken = NoMap
    /\ Len(line) = DisplayCells

(***************************************************************************)
(* The page's braille line, under SpecPageLine and SpecCursor.             *)
(***************************************************************************)
IsUpdate(op) == op \in {"setLine", "clear"}

\* The outbound requests to the Bridge among the calls of a task.
Sends(out) == {i \in DOMAIN out : out[i] \in {"sendText", "clearDisplay"}}

\* C12: an update whose normalized text equals the current line issues no
\* outbound request and leaves the line; any other update makes the
\* normalized text the line and issues exactly one request; so of two
\* consecutive updates with texts that normalize identically the second
\* issues none, and the two together at most one.
C12_UpdateIdempotent ==
    [][ IsUpdate(pgLast'.op)
          => LET next == normalizeBrailleText(pgLast'.text)
             IN /\ brailleLine' = next
                /\ next = brailleLine => pgOut' = <<>>
                /\ next # brailleLine => Cardinality(Sends(pgOut')) = 1
                /\ (IsUpdate(pgLast.op) /\ normalizeBrailleText(pgLast.text) = next)
                      => /\ pgOut' = <<>>
                         /\ Cardinality(Sends(pgOut)) <= 1 ]_vars

\* A second update, written with other whitespace than the line shown, that
\* normalizes to the line shown and has sent nothing.
C12_Witness ==
    /\ pgLast.op = "setLine"
    /\ brailleLine # <<>>
    /\ trim(pgLast.text) # pgLast.text
    /\ normalizeBrailleText(pgLast.text) = brailleLine
    /\ pgOut = <<>>

\* C16: a cursor event whose index lies outside the line is dropped: no word
\* is found for it and it is not forwarded to the active activity's onCursor.
C16_OutOfRangeCursorDropped ==
    (pgLast.op = "cursor" /\ (pgLast.index < 0 \/ pgLast.index >= BRAILLE_CELLS))
        => pgLast.word = <<>> /\ pgOut = <<>>

\* C29: when the cursor index points at a space of the line, computeWordAt
\* returns nothing: the word of the cursor selection is empty.
C29_NoWordAtSeparator ==
    (/\ pgLast.op = "cursor"
     /\ pgLast.index >= 0 /\ pgLast.index < Len(brailleLine)
     /\ charAt(brailleLine, pgLast.index) = " ")
        => pgLast.word = <<>>

(***************************************************************************)
(* The braille monitor, under SpecMonitor.                                 *)
(***************************************************************************)
IsRunStart(text, i) == i = 1 \/ ~isAsciiDigit(text[i - 1])

SignCount(cell) == Cardinality({k \in DOMAIN cell : cell[k] = SIGN_NUMBER})

\* C15: in the cells of a text, the first digit of every maximal run of
\* digits has the number sign, once and in front, and no later digit of the
\* run has it; "A1b23" gives capital sign and a, number sign and 1, b,
\* number sign and 2, 3.
C15_NumberSignOncePerDigitRun ==
    /\ currentText # <<>> => Len(monCells) = Len(currentText)
    /\ \A i \in 1..Len(currentText) :
          isAsciiDigit(currentText[i])
              => IF IsRunStart(currentText, i)
                 THEN SignCount(monCells[i]) = 1 /\ monCells[i][1] = SIGN_NUMBER
                 ELSE SignCount(monCells[i]) = 0
    /\ currentText = <<"A", "1", "b", "2", "3">>
          => monCells = << <<getCapitalSignForLang(currentLang), "a">>,
                           <<SIGN_NUMBER, "a">>, <<"b">>,
                           <<SIGN_NUMBER, "b">>, <<"c">> >>

\* The text "A1b23" translated with a hook that puts a number sign in every
\* cell: the run "23" has one number sign.
C15_Witness ==
    /\ currentText = <<"A", "1", "b", "2", "3">>
    /\ translator = "signs"
    /\ SignCount(monCells[4]) = 1
    /\ SignCount(monCells[5]) = 0

\* C21: every sendText and clearDisplay request that is over has emitted an
\* event that tells its outcome ("http" with the response's ok after a
\* response, an event of the failure after a transport failure); its
\* promise is rejected exactly when the transport failed.
C21_OutcomeReportedByEvent ==
    \A i \in RequestIds :
        requests[i].phase = "done"
            => /\ requests[i].event # "none"
               /\ requests[i].completion = "rejected" <=> requests[i].event # "http"
               /\ requests[i].event = "http" => requests[i].eventOk = requests[i].ok

\* C39: emit(eventName, payload) calls, once each, the handlers subscribed
\* to that event (those that were when emit was called and, if a handler
\* takes one off meanwhile, still are at their turn), whether or not a
\* handler before them raised, and no other; no exception leaves emit; and
\* a handler taken off through its cancellation handle is not called by the
\* emits that follow.
C39_EmitReachesEveryHandler ==
    [][ /\ emLast'.op = "emit"
              => LET before == Range(handlers[emLast'.event])
                     after == Range(handlers'[emLast'.event])
                     calledSet == Range(emLast'.called)
                 IN /\ ~emLast'.escaped
                    /\ (before \cap after) \subseteq calledSet
                    /\ calledSet \subseteq before
                    /\ Len(emLast'.called) = Cardinality(calledSet)
        /\ emLast'.op = "cancel"
              => ~InSeq(handlers'[emLast'.event], emLast'.handler)
      ]_vars

\* "cursor" was emitted to f and g, in that order; f raised and g was called
\* all the same.
C39_Witness ==
    /\ emLast.op = "emit" /\ emLast.event = "cursor"
    /\ emLast.called = <<"f", "g">>
    /\ "f" \in emLast.threw
    /\ handlers["http"] # <<>>

\* C36: when a flash message has finished while the activity runs, the
\* display shows the line of the current round, the one cursor hits are
\* judged against.
C36_FlashRestoresCurrentLine ==
    (plLast.op = "flashDone" /\ pl.running) => pl.display = pl.line

\* C37: with no stop from outside, the promise start(ctx) returned is
\* resolved in the end: after the last file, after a failure, and when
\* there is nothing to play.
C37_DonePromiseResolves ==
    st.donePending ~> ~st.donePending

\* A space, a digit, a character of the punctuation table or a letter.
IsListed(ch) ==
    ch = " " \/ isAsciiDigit(ch) \/ InPunct(ch) \/ InLetters(toLowerCase(ch))

\* C24: whatever the translator hook returns (a cell too few, no signs,
\* signs everywhere, empty cells) and also when it throws, there is one cell
\* per character and the cell of every space, digit, listed punctuation
\* character and letter is the cell the text gets without a hook.
C24_TranslatorCannotChangeListedCells ==
    LET own == rebuildCells(currentText, currentLang, "none")
    IN /\ Len(monCells) = Len(currentText)
       /\ \A i \in 1..Len(currentText) :
             IsListed(currentText[i]) => monCells[i] = own[i]

\* "b#2" was translated by the hook that puts a number sign in every cell:
\* the cells of "b" and "2" are those of the monitor's own tables, the cell
\* of "#" is the hook's.
C24_Witness ==
    /\ translator = "signs"
    /\ currentText = <<"b", "#", "2">>
    /\ monCells = << <<"b">>, <<SIGN_NUMBER, "#">>, <<SIGN_NUMBER, "b">> >>

=============================================================================
